---------------------------- MODULE Spec2Model ----------------------------
(***************************************************************************)
(* Model of the event-processing orchestration pipeline of Smart_Tactic_API*)
(* (smart-tactic-prod/app/services/orchestrator.py, fallback_engine.py,    *)
(* autofill_engine.py, and the parts of event_handler.py and gemini_llm.py *)
(* they rest on).                                                          *)
(*                                                                         *)
(* A payload is a Python dict; it is modelled as a function from Keys to   *)
(* value tokens.  Tokens are strings: Absent stands for a key that is not  *)
(* in the dict, a token starting with '#' is a Python int, "@dt" and       *)
(* "@now" are datetime objects, everything else is a Python str.           *)
(*                                                                         *)
(* The orchestrator's collaborators (EventHandler, the stores, the         *)
(* postprocess sub-tasks) are the environment: each call draws its outcome *)
(* from the results the call site distinguishes (a success result, a       *)
(* failure result, a raised exception).                                    *)
(***************************************************************************)
EXTENDS Integers, Sequences, FiniteSets, TLC

\* ------------------------------------------------------------------ bounds
\* largest number of events in one batch
MaxBatch == 6

\* ------------------------------------------------------- program constants
\* asyncio.Semaphore(5)
ConcurrencyCap == 5
\* capacity default of the 'conference' business rule and of the capacity fix
DefaultCapacity == 100
\* duration default of the 'workshop' business rule
DefaultDuration == 2

\* ----------------------------------------------------------- value tokens
Absent == "<absent>"
\* a key that is present with the value None
NoneTok == "<none>"
Blank == " "
IntTok(n) == IF n = 100 THEN "#100" ELSE IF n = 2 THEN "#2" ELSE IF n = 50 THEN "#50" ELSE "#7"
IntTokens == {"#100", "#2", "#50", "#7"}
DateTokens == {"@dt", "@now"}
\* the empty list []
EmptyList == "<list>"

Keys == {"title", "event_type", "email", "capacity", "status", "duration", "created_at", "date", "venue",
         "event_name", "name", "price", "description", "instructor", "materials", "agenda",
         "attendees"}

\* isinstance(v, str)
IsStr(v) == v /= Absent /\ v /= NoneTok /\ v \notin IntTokens /\ v \notin DateTokens /\ v /= EmptyList
\* isinstance(v, int)
IsInt(v) == v \in IntTokens
\* bool(payload.get(k)): a missing key, None, the empty string and the empty list are falsy
Truthy(v) == v /= Absent /\ v /= NoneTok /\ v /= "" /\ v /= EmptyList
\* str.strip()
Strip(v) == IF v = Blank THEN "" ELSE v
\* '@' in v, for a str v
HasAt(v) == v = "a@b.c"
\* int(v) for a str v: the number, or ValueError (reported as Absent)
ParseInt(v) == IF v = "50" THEN IntTok(50) ELSE Absent
\* datetime.fromisoformat(v.replace('Z', '+00:00')): the datetime, or ValueError (Absent)
ParseIso(v) == IF v = "2024-05-01T10:00:00Z" THEN "@dt" ELSE Absent

EmptyPayload == [k \in Keys |-> Absent]

\* ---------------------------------------------------------- preprocessing
NormalizePayload(p) ==
    [k \in Keys |->
        IF k \in {"title", "description", "event_type"} /\ IsStr(p[k]) THEN Strip(p[k])
        ELSE IF k = "date" /\ IsStr(p[k]) /\ ParseIso(p[k]) /= Absent THEN ParseIso(p[k])
        ELSE p[k]]

ApplyBusinessRules(p) ==
    LET p1 == IF Truthy(p["status"]) THEN p ELSE [p EXCEPT !["status"] = "draft"]
        p2 == IF Truthy(p1["created_at"]) THEN p1 ELSE [p1 EXCEPT !["created_at"] = "@now"]
    IN  IF p2["event_type"] = "conference"
        THEN IF Truthy(p2["capacity"]) THEN p2
             ELSE [p2 EXCEPT !["capacity"] = IntTok(DefaultCapacity)]
        ELSE IF p2["event_type"] = "workshop"
        THEN IF Truthy(p2["duration"]) THEN p2
             ELSE [p2 EXCEPT !["duration"] = IntTok(DefaultDuration)]
        ELSE p2

ErrMissingTitle == "Missing required field: title"
ErrMissingType == "Missing required field: event_type"
ErrEmail == "Invalid email format"
ErrCapacity == "Capacity must be an integer"
ErrTypeError == "argument of type 'int' is not iterable"

\* '@' not in payload['email'] raises TypeError when the email is an int
ValidationRaises(p) == Truthy(p["email"]) /\ IsInt(p["email"])

\* the error list of _validate_processed_payload, in the order it is built
ValidationErrors(p) ==
    (IF Truthy(p["title"]) THEN <<>> ELSE <<ErrMissingTitle>>) \o
    (IF Truthy(p["event_type"]) THEN <<>> ELSE <<ErrMissingType>>) \o
    (IF Truthy(p["email"]) /\ ~HasAt(p["email"]) THEN <<ErrEmail>> ELSE <<>>) \o
    (IF Truthy(p["capacity"]) /\ ~IsInt(p["capacity"]) THEN <<ErrCapacity>> ELSE <<>>)

ValidateProcessedPayload(p) ==
    [valid |-> ValidationErrors(p) = <<>>, errors |-> ValidationErrors(p)]

\* mutant of FixOne: a missing title is not repaired
FixOneSkipsTitle(p, error) ==
    IF error = ErrMissingType THEN [p EXCEPT !["event_type"] = "general"]
    ELSE IF error = ErrEmail THEN [p EXCEPT !["email"] = Absent]
    ELSE p

\* one pass of the loop of _fix_validation_issues
FixOne(p, error) ==
    IF error = ErrMissingTitle THEN [p EXCEPT !["title"] = "Untitled Event"]
    ELSE IF error = ErrMissingType THEN [p EXCEPT !["event_type"] = "general"]
    ELSE IF error = ErrEmail THEN [p EXCEPT !["email"] = Absent]
    ELSE IF error = ErrCapacity
    THEN [p EXCEPT !["capacity"] =
            IF IsStr(p["capacity"]) /\ ParseInt(p["capacity"]) /= Absent
            THEN ParseInt(p["capacity"]) ELSE IntTok(DefaultCapacity)]
    ELSE p

RECURSIVE FixValidationIssues(_, _)
FixValidationIssues(p, errors) ==
    IF errors = <<>> THEN p
    ELSE FixValidationIssues(FixOne(p, Head(errors)), Tail(errors))

\* mutant of PreprocessEvent: an invalid payload fails the step instead of being repaired
PreprocessEventNoRepair(p) ==
    LET processed == ApplyBusinessRules(NormalizePayload(p))
        v == ValidateProcessedPayload(processed)
    IN  IF ValidationRaises(processed)
        THEN [success |-> FALSE, processed_payload |-> EmptyPayload,
              corrections_applied |-> FALSE, corrector |-> "none",
              validation_failed |-> FALSE, error |-> ErrTypeError]
        ELSE IF ~v.valid
        THEN [success |-> FALSE, processed_payload |-> EmptyPayload,
              corrections_applied |-> FALSE, corrector |-> "none",
              validation_failed |-> TRUE, error |-> "Validation failed"]
        ELSE [success |-> TRUE, processed_payload |-> processed,
              corrections_applied |-> FALSE, corrector |-> "none",
              validation_failed |-> FALSE, error |-> ""]

\* _preprocess_event: which corrector ran is reported in 'corrector'
\* ("none", or "orchestrator" for the orchestrator's own _fix_validation_issues)
PreprocessEvent(p) ==
    LET processed == ApplyBusinessRules(NormalizePayload(p))
        v == ValidateProcessedPayload(processed)
    IN  IF ValidationRaises(processed)
        THEN [success |-> FALSE, processed_payload |-> EmptyPayload,
              corrections_applied |-> FALSE, corrector |-> "none",
              validation_failed |-> FALSE, error |-> ErrTypeError]
        ELSE IF ~v.valid
        THEN [success |-> TRUE,
              processed_payload |-> FixValidationIssues(processed, v.errors),
              corrections_applied |-> TRUE, corrector |-> "orchestrator",
              validation_failed |-> TRUE, error |-> ""]
        ELSE [success |-> TRUE, processed_payload |-> processed,
              corrections_applied |-> FALSE, corrector |-> "none",
              validation_failed |-> FALSE, error |-> ""]

\* ------------------------------------------------- FallbackEngine.process_event
\* _rule_applies(invalid_email): email and '@' not in email; raises TypeError for an int
FallbackRuleRaises(p) == Truthy(p["email"]) /\ IsInt(p["email"])

\* _apply_fallback_rules: missing_title, missing_event_type, invalid_email, in this order
ApplyFallbackRules(p) ==
    LET p1 == IF Truthy(p["title"]) THEN p ELSE [p EXCEPT !["title"] = "Untitled Event"]
        p2 == IF Truthy(p1["event_type"]) THEN p1 ELSE [p1 EXCEPT !["event_type"] = "general"]
    IN  IF Truthy(p2["email"]) /\ ~HasAt(p2["email"]) THEN [p2 EXCEPT !["email"] = Absent] ELSE p2

\* FallbackEngine._validate_processed_payload
FallbackValidationErrors(p) ==
    (IF Truthy(p["title"]) THEN <<>> ELSE <<ErrMissingTitle>>) \o
    (IF Truthy(p["event_type"]) THEN <<>> ELSE <<ErrMissingType>>)

\* _apply_field_mapping on the synonyms of title: 'name' is moved first, then 'event_name',
\* each only while the payload has no key 'title' (an empty title is a key of the payload)
ApplyFieldMapping(p) ==
    LET p1 == IF p["name"] /= Absent /\ p["title"] = Absent
              THEN [p EXCEPT !["title"] = p["name"], !["name"] = Absent] ELSE p
    IN  IF p1["event_name"] /= Absent /\ p1["title"] = Absent
        THEN [p1 EXCEPT !["title"] = p1["event_name"], !["event_name"] = Absent] ELSE p1

\* _apply_data_type_conversion: int() of the str values of capacity, duration and price
ApplyDataTypeConversion(p) ==
    [k \in Keys |->
        IF k \in {"capacity", "duration", "price"} /\ IsStr(p[k]) /\ ParseInt(p[k]) /= Absent
        THEN ParseInt(p[k]) ELSE p[k]]

\* _inject_default_values
InjectDefaultValues(p) ==
    [k \in Keys |->
        IF k = "title" /\ ~Truthy(p[k]) THEN "Untitled Event"
        ELSE IF k = "event_type" /\ ~Truthy(p[k]) THEN "general"
        ELSE IF k = "status" /\ ~Truthy(p[k]) THEN "draft"
        ELSE IF k = "description" /\ ~Truthy(p[k]) THEN ""
        ELSE p[k]]

\* _apply_additional_fallback_strategies: mapping, then conversion, then defaults
ApplyAdditionalFallbackStrategies(p) ==
    InjectDefaultValues(ApplyDataTypeConversion(ApplyFieldMapping(p)))

\* process_event; 'store' is the status it passes to _store_fallback_result, "none" on
\* the path of the except clause, which does not call it
ProcessEvent(p) ==
    IF FallbackRuleRaises(p)
    THEN [success |-> FALSE, processed_payload |-> EmptyPayload, error |-> ErrTypeError,
          store |-> "none"]
    ELSE LET processed == ApplyFallbackRules(p)
         IN  IF FallbackValidationErrors(processed) = <<>>
             THEN [success |-> TRUE, processed_payload |-> processed, error |-> "",
                   store |-> "success"]
             ELSE [success |-> TRUE,
                   processed_payload |-> ApplyAdditionalFallbackStrategies(processed),
                   error |-> "", store |-> "success"]

\* fallback_engine.py imports json, typing, GeminiLLM, SQLClient, get_logger and
\* ValidationResult: the name datetime is not defined in the module
DatetimeImported == FALSE

\* _store_fallback_result: building result_data evaluates datetime.utcnow(); the NameError
\* is caught and logged, and store_fallback_result is not called
StoreFallbackResult(s, orig, processed, status) ==
    IF DatetimeImported
    THEN Append(s, [original_payload |-> orig, processed_payload |-> processed, status |-> status])
    ELSE s

\* what a call of process_event on p delivers to the store s
ProcessEventStores(s, p) ==
    LET r == ProcessEvent(p)
    IN  IF r.store = "none" THEN s ELSE StoreFallbackResult(s, p, r.processed_payload, r.store)

\* ------------------------------------------------------------------ inputs
\* payloads over the keys the validation reads, every combination
CorePayloads ==
    {[k \in Keys |->
        IF k = "title" THEN t ELSE IF k = "event_type" THEN e
        ELSE IF k = "email" THEN m ELSE IF k = "capacity" THEN c ELSE Absent] :
        t \in {Absent, "", Blank, "Launch"},
        e \in {Absent, Blank, "conference", "workshop"},
        m \in {Absent, "a@b.c", "nobody", "#7"},
        c \in {Absent, "#50", "50", "many"}}

\* a well-formed payload, and variations of it on the other keys
GoodPayload ==
    [k \in Keys |-> IF k = "title" THEN "Launch" ELSE IF k = "event_type" THEN "conference" ELSE Absent]

AuxPayloads ==
    {[GoodPayload EXCEPT !["status"] = "published"],
     [GoodPayload EXCEPT !["created_at"] = "@dt"],
     [GoodPayload EXCEPT !["date"] = "2024-05-01T10:00:00Z"],
     [GoodPayload EXCEPT !["date"] = "tomorrow"],
     [GoodPayload EXCEPT !["event_type"] = "workshop", !["duration"] = "#7"],
     [GoodPayload EXCEPT !["venue"] = "Hall A"],
     [GoodPayload EXCEPT !["title"] = NoneTok],
     [GoodPayload EXCEPT !["title"] = "#7"],
     [GoodPayload EXCEPT !["title"] = Absent, !["event_name"] = "Kickoff", !["capacity"] = "50"]}

Payloads == CorePayloads \cup AuxPayloads

\* the payloads of the events of a batch
BatchPayloads ==
    {GoodPayload,
     [GoodPayload EXCEPT !["email"] = "#7"]}

\* outcomes of a call of EventHandler.create_event as the orchestrator sees them:
\* a success result (it always carries a fresh event id), a failure result (create_event
\* catches what its own body raises, e.g. the construction of the EventModel or a failed
\* write to a store, and returns success False with the message), an exception
CreateOutcomes == {"ok", "fail", "raise"}
\* outcomes of one postprocess sub-task: success result, failure result, exception
SubTaskOutcomes == {"ok", "fail", "raise"}

\* -------------------------------------------------------------------- state
VARIABLES
    mode,           \* which public operation is running: "none", "creation", "update", "batch"
    pc,             \* position inside the running operation
    original,       \* the value of the caller's payload when the operation was called
    payload,        \* workflow_state['payload']: a reference to the caller's payload
    wf,             \* workflow_state: status, steps, error
    pre,            \* preprocess_result
    createResult,   \* create_result
    fallbackPayload,\* fallback_result['processed_payload'] in _attempt_fallback_recovery
    createCalls,    \* payloads handed to EventHandler.create_event in this run
    processCalls,   \* payloads handed to FallbackEngine.process_event in this run
    correctCalls,   \* payloads handed to FallbackEngine.handle_invalid_event in this run
    stored,         \* workflow runs this run handed to SQLClient.store_workflow_result
    nextId,         \* number of event ids generated so far
    ret,            \* what the public operation returned
    docExists,      \* update: whether the event document is in the document store
    doc,            \* update: the stored event document
    analysis,       \* update: change_analysis
    updateCalls     \* update: payloads handed to EventHandler.update_event in this run

updVars == <<docExists, doc, analysis, updateCalls>>

VARIABLES
    events,         \* batch: the list of event payloads
    taskState,      \* batch: per task "pending", "running" (inside the semaphore) or "done"
    taskResult,     \* batch: per task what gather collected for it
    sem,            \* batch: the counter of the semaphore
    cur,            \* batch: the task the event loop is running, 0 when none
    batch,          \* batch: batch_state
    storedBatch,    \* batch runs handed to SQLClient.store_batch_result
    bret            \* what orchestrate_batch_processing returned

batchVars == <<events, taskState, taskResult, sem, cur, batch, storedBatch, bret>>

VARIABLES
    fpc,            \* fallback engine: position inside the running call, "idle" when none
    fbPayload,      \* fallback engine: the payload the call was given
    fbErrors,       \* fallback engine: the validation_errors list the call was given
    fbLlm,          \* fallback engine: what the generative collaborator did in this call
    fbTried,        \* fallback engine: the strategies invoked so far, each with its result
    fbResult,       \* fallback engine: what the call returned
    fbStored        \* records delivered to SQLClient.store_fallback_result

fbVars == <<fpc, fbPayload, fbErrors, fbLlm, fbTried, fbResult, fbStored>>

orchVars == <<mode, pc, original, payload, wf, pre, createResult, fallbackPayload, createCalls, processCalls,
              correctCalls, stored, nextId, ret, docExists, doc, analysis, updateCalls,
              events, taskState, taskResult, sem, cur, batch, storedBatch, bret>>

VARIABLES
    afCache,        \* autofill engine: self.cache, the entries in dict (insertion) order
    afClock,        \* autofill engine: number of apply_autofill calls so far, the time of the last one
    afCall,         \* autofill engine: the last apply_autofill call, its inputs, layers and result
    genCalls,       \* generative operations invoked in the running call, with the model invocations of each
    incCall,        \* autofill engine: the last apply_autofill_updates call
    ehCall          \* event handler: the last create_event call, the store writes it attempted

afVars == <<afCache, afClock, afCall, genCalls, incCall, ehCall>>

VARIABLES
    cacheCalls,     \* autofill engine: the _update_autofill_cache calls that threads have in progress
    requests,       \* process: the requests served so far, the engine each one used and its cache
    clock,          \* process: datetime.utcnow() in whole seconds
    workflowIds,    \* orchestrator: the ids _generate_workflow_id has returned, with the run of each
    eventDocs,      \* document store: the event ids of the documents the creation run in progress has set
    storedEvent,    \* document store: the document of the event that concurrent update runs work on
    updateRuns      \* event handler: the update_event calls that worker processes have in progress

procVars == <<cacheCalls, requests, clock, workflowIds, eventDocs, storedEvent, updateRuns>>

NoPre ==
    [success |-> FALSE, processed_payload |-> EmptyPayload, corrections_applied |-> FALSE,
     corrector |-> "none", validation_failed |-> FALSE, error |-> ""]
NoCreate == [success |-> FALSE, event_id |-> 0, error |-> ""]
NoRet ==
    [returned |-> FALSE, raised |-> FALSE, keys |-> {}, success |-> FALSE, error |-> "",
     event_id |-> 0, steps_completed |-> 0, changes_applied |-> <<>>, dependent_updates |-> <<>>]
NewWorkflow == [status |-> "started", steps |-> <<>>, error |-> ""]
NoAnalysis == [success |-> FALSE, changes |-> <<>>, error |-> ""]

Step(name, ok) == [step |-> name, status |-> IF ok THEN "completed" ELSE "failed"]

StepsCompleted(steps) == Cardinality({i \in 1..Len(steps) : steps[i].status = "completed"})

\* the result of create_event for an outcome; n is the number of the call in the run
ErrCreate(n) == IF n = 1 THEN "create_event failed (call 1)" ELSE "create_event failed (call 2)"
CreateResult(out, id, n) ==
    IF out = "ok" THEN [success |-> TRUE, event_id |-> id, error |-> ""]
    ELSE [success |-> FALSE, event_id |-> 0, error |-> ErrCreate(n)]

\* mutant of StoredDocuments: a call that ends in a failure result has set its document too
StoredDocumentsBeforeFailure(out, id) == IF out = "raise" THEN <<>> ELSE <<id>>

\* EventHandler.create_event, lines 54-57 and 62-70, with FirestoreClient.store_event: the
\* documents one call has set by the time it ends. The success result is returned only after
\* store_event set the document and returned success; a failure result comes from an exception
\* raised before the write or from a store_event that did not set the document; nothing in the
\* body lets an exception leave after the write
StoredDocuments(out, id) == IF out = "ok" THEN <<id>> ELSE <<>>

\* the return value of _handle_workflow_failure
FailureResult(error) ==
    [returned |-> TRUE, raised |-> FALSE, keys |-> {"success", "error", "workflow_id"},
     success |-> FALSE, error |-> error, event_id |-> 0, steps_completed |-> 0,
     changes_applied |-> <<>>, dependent_updates |-> <<>>]

\* mutant of ExceptResult: the clause re-raises, the exception leaves the operation
ExceptResultReraised(message) ==
    [returned |-> TRUE, raised |-> TRUE, keys |-> {}, success |-> FALSE, error |-> message,
     event_id |-> 0, steps_completed |-> 0, changes_applied |-> <<>>, dependent_updates |-> <<>>]

\* the return value of the 'except Exception' clause of an orchestrate_* operation
ExceptResult(message) ==
    [returned |-> TRUE, raised |-> FALSE, keys |-> {"success", "error", "workflow_id"},
     success |-> FALSE, error |-> message, event_id |-> 0, steps_completed |-> 0,
     changes_applied |-> <<>>, dependent_updates |-> <<>>]

\* the return value of the success path of orchestrate_event_creation
SuccessResult(steps, id) ==
    [returned |-> TRUE, raised |-> FALSE,
     keys |-> {"success", "workflow_id", "event_id", "workflow_duration", "steps_completed"},
     success |-> TRUE, error |-> "", event_id |-> id, steps_completed |-> StepsCompleted(steps),
     changes_applied |-> <<>>, dependent_updates |-> <<>>]

\* _store_workflow_result: the run is handed to the store as it is at the call; a failure
\* or an exception of the store is logged and changes nothing in the run
StoreWorkflowResult(w) ==
    Append(stored, [status |-> w.status, steps |-> w.steps, error |-> w.error])

\* _handle_workflow_failure as a step of the running operation
HandleWorkflowFailure(w, error) ==
    /\ wf' = [w EXCEPT !.status = "failed", !.error = error]
    /\ stored' = StoreWorkflowResult(wf')
    /\ ret' = FailureResult(error)
    /\ pc' = "returned"

\* _postprocess_event; outs[1..3] are the outcomes of _update_related_events,
\* _send_creation_notifications and _update_analytics
PostprocessEvent(cr, outs) ==
    IF cr.event_id = 0
    THEN [success |-> FALSE, error |-> "No event ID in create result", dependent |-> <<>>]
    ELSE IF \E i \in 1..3 : outs[i] = "raise"
    THEN [success |-> FALSE, error |-> "sub-task raised", dependent |-> <<>>]
    ELSE [success |-> TRUE, error |-> "",
          dependent |-> SelectSeq(<<1, 2, 3>>, LAMBDA i : outs[i] = "ok")]

\* id(self) of the orchestrator: one value for as long as the object lives
OrchestratorSelf == "id(self)"
\* _generate_workflow_id: f"workflow_{utcnow:%Y%m%d_%H%M%S}_{id(self)}", the second and the object
GenerateWorkflowId == [second |-> clock, self |-> OrchestratorSelf]
\* the call of _generate_workflow_id that opens a run of the given kind
OpenRun(kind) ==
    /\ workflowIds' = Append(workflowIds, [run |-> kind, id |-> GenerateWorkflowId])
    /\ eventDocs' = <<>>
    /\ UNCHANGED <<cacheCalls, requests, clock, storedEvent, updateRuns>>

\* ------------------------------------------------ orchestrate_event_creation
\* lines 32-42: a fresh workflow_state for payload p
BeginCreation(p) ==
    /\ OpenRun("creation")
    /\ analysis' = NoAnalysis
    /\ updateCalls' = <<>>
    /\ original' = p
    /\ payload' = p
    /\ wf' = NewWorkflow
    /\ pre' = NoPre
    /\ createResult' = NoCreate
    /\ fallbackPayload' = EmptyPayload
    /\ createCalls' = <<>>
    /\ processCalls' = <<>>
    /\ correctCalls' = <<>>
    /\ ret' = NoRet
    /\ pc' = "preprocess"

StartCreation(p) ==
    /\ fpc = "idle"
    /\ mode = "none" /\ pc = "idle"
    /\ mode' = "creation"
    /\ BeginCreation(p)
    /\ UNCHANGED <<stored, nextId, docExists, doc, batchVars>>
    /\ UNCHANGED <<fbVars, afVars>>

\* step 1: _preprocess_event, its step record, and the return when it failed
Preprocess ==
    /\ UNCHANGED <<updVars, batchVars>>
    /\ pc = "preprocess"
    /\ pre' = PreprocessEvent(payload)
    /\ LET w == [wf EXCEPT !.steps = Append(@, Step("preprocess", pre'.success))]
       IN  IF ~pre'.success
            THEN HandleWorkflowFailure(w, pre'.error)
            ELSE /\ wf' = w
                 /\ pc' = "create_event"
                 /\ UNCHANGED <<stored, ret>>
    /\ UNCHANGED <<mode, original, payload, createResult, fallbackPayload, createCalls, processCalls,
                   correctCalls, nextId>>
    /\ UNCHANGED <<fbVars, afVars, procVars>>

\* step 2: event_handler.create_event(preprocess_result['processed_payload']) returns a result
CreateEvent ==
    /\ UNCHANGED <<updVars, batchVars>>
    /\ pc = "create_event"
    /\ createCalls' = Append(createCalls, pre.processed_payload)
    /\ \E out \in CreateOutcomes \ {"raise"} :
        LET cr == CreateResult(out, nextId + 1, 1)
        IN  /\ createResult' = cr
            /\ wf' = [wf EXCEPT !.steps = Append(@, Step("create_event", cr.success))]
            /\ nextId' = IF out = "ok" THEN nextId + 1 ELSE nextId
            /\ eventDocs' = eventDocs \o StoredDocuments(out, nextId + 1)
            /\ pc' = IF cr.success THEN "postprocess" ELSE "fallback_recovery"
    /\ UNCHANGED <<mode, original, payload, pre, fallbackPayload, processCalls, correctCalls, stored, ret>>
    /\ UNCHANGED <<fbVars, afVars, cacheCalls, requests, clock, workflowIds, storedEvent, updateRuns>>

\* step 2 when the call raises: the 'except Exception' clause of lines 102-108 returns
CreateEventRaises ==
    /\ UNCHANGED <<updVars, batchVars>>
    /\ pc = "create_event"
    /\ createCalls' = Append(createCalls, pre.processed_payload)
    /\ ret' = ExceptResult("create_event raised")
    /\ eventDocs' = eventDocs \o StoredDocuments("raise", nextId + 1)
    /\ pc' = "returned"
    /\ UNCHANGED <<mode, original, payload, wf, pre, createResult, fallbackPayload, processCalls,
                   correctCalls, stored, nextId>>
    /\ UNCHANGED <<fbVars, afVars, cacheCalls, requests, clock, workflowIds, storedEvent, updateRuns>>

\* mutant of RecoveryPayload: the recovery is given the preprocessed payload
RecoveryPayloadProcessed(wfPayload, processed) == processed

\* line 355: the payload the recovery hands to process_event is workflow_state['payload'],
\* not the preprocessed one
RecoveryPayload(wfPayload, processed) == wfPayload

\* lines 371-383: the result of a failed recovery
RecoveryFailed(message) == [success |-> FALSE, error |-> message]

\* mutant of RecoveryFailureError: the run fails with the error of the fallback result
RecoveryFailureErrorOfFallback(cr, fallbackResult) == fallbackResult.error

\* line 74: the error the run fails with when the recovery failed is the one of create_result
RecoveryFailureError(cr, fallbackResult) == cr.error

\* _attempt_fallback_recovery, lines 355-358: process_event on workflow_state['payload'];
\* when it fails the recovery fails and the run ends with the create error
FallbackRecovery ==
    /\ pc = "fallback_recovery"
    /\ fbStored' = ProcessEventStores(fbStored, RecoveryPayload(payload, pre.processed_payload))
    /\ UNCHANGED <<fpc, fbPayload, fbErrors, fbLlm, fbTried, fbResult, afVars, procVars>>
    /\ UNCHANGED <<updVars, batchVars>>
    /\ processCalls' = Append(processCalls, RecoveryPayload(payload, pre.processed_payload))
    /\ LET fr == ProcessEvent(RecoveryPayload(payload, pre.processed_payload))
       IN  IF fr.success
           THEN /\ fallbackPayload' = fr.processed_payload
                /\ pc' = "fallback_create"
                /\ UNCHANGED <<wf, stored, ret>>
           ELSE /\ HandleWorkflowFailure(wf,
                        RecoveryFailureError(createResult, RecoveryFailed("Fallback recovery failed")))
                /\ UNCHANGED fallbackPayload
    /\ UNCHANGED <<mode, original, payload, pre, createResult, createCalls, correctCalls, nextId>>

\* _attempt_fallback_recovery, lines 359-383, and lines 66-74 of the caller:
\* create_event on the corrected payload; an exception of it is caught by the recovery
FallbackCreate ==
    /\ UNCHANGED <<updVars, batchVars>>
    /\ pc = "fallback_create"
    /\ createCalls' = Append(createCalls, fallbackPayload)
    /\ \E out \in CreateOutcomes :
        /\ eventDocs' = eventDocs \o StoredDocuments(out, nextId + 1)
        /\ IF out = "ok"
           THEN LET cr == CreateResult(out, nextId + 1, 2)
                IN  /\ createResult' = cr
                    /\ wf' = [wf EXCEPT !.steps = Append(@, Step("fallback_recovery", TRUE))]
                    /\ nextId' = IF out = "ok" THEN nextId + 1 ELSE nextId
                    /\ pc' = "postprocess"
                    /\ UNCHANGED <<stored, ret>>
           ELSE /\ HandleWorkflowFailure(wf,
                       RecoveryFailureError(createResult,
                           RecoveryFailed(IF out = "raise" THEN "create_event raised"
                                          ELSE "Fallback recovery failed")))
                /\ UNCHANGED <<createResult, nextId>>
    /\ UNCHANGED <<mode, original, payload, pre, fallbackPayload, processCalls, correctCalls>>
    /\ UNCHANGED <<fbVars, afVars, cacheCalls, requests, clock, workflowIds, storedEvent, updateRuns>>

\* mutant of CompletionStatus: a failed postprocessing fails the workflow
CompletionStatusOfPostprocess(pr) == IF pr.success THEN "completed" ELSE "failed"

\* line 85: the status the workflow gets after postprocessing, whatever its result pr
CompletionStatus(pr) == "completed"

\* step 3 and the completion of the workflow, lines 76-100
Postprocess ==
    /\ UNCHANGED <<updVars, batchVars>>
    /\ pc = "postprocess"
    /\ \E outs \in [1..3 -> SubTaskOutcomes] :
        LET pr == PostprocessEvent(createResult, outs)
        IN  /\ wf' = [wf EXCEPT !.steps = Append(@, Step("postprocess", pr.success)),
                                !.status = CompletionStatus(pr)]
            /\ stored' = StoreWorkflowResult(wf')
            /\ ret' = SuccessResult(wf'.steps, createResult.event_id)
    /\ pc' = "returned"
    /\ UNCHANGED <<mode, original, payload, pre, createResult, fallbackPayload, createCalls, processCalls,
                   correctCalls, nextId>>
    /\ UNCHANGED <<fbVars, afVars, procVars>>

\* ------------------------------------------------- orchestrate_event_update
\* the document of the event that is updated, as stored before the run
StoredDoc ==
    [k \in Keys |->
        IF k = "title" THEN "Launch" ELSE IF k = "event_type" THEN "conference"
        ELSE IF k = "venue" THEN "Hall A" ELSE IF k = "capacity" THEN "#50" ELSE Absent]

UpdatePayloads ==
    {[EmptyPayload EXCEPT !["venue"] = "Hall B"],
     [EmptyPayload EXCEPT !["title"] = "Launch", !["date"] = "@dt"],
     [EmptyPayload EXCEPT !["event_type"] = "workshop", !["venue"] = "Hall A"],
     [EmptyPayload EXCEPT !["capacity"] = NoneTok, !["email"] = "a@b.c"],
     [EmptyPayload EXCEPT !["venue"] = "", !["title"] = "Launch"]}

\* outcomes of a call of FirestoreClient.get_event
GetOutcomes == {"ok", "error", "raise"}
\* outcomes of a call of EventHandler.update_event
UpdateOutcomes == {"ok", "fail", "raise"}

\* the order in which payload.items() yields the keys
KeyOrder ==
    <<"title", "event_type", "email", "capacity", "status", "duration", "created_at", "date", "venue",
      "event_name", "name", "price", "description", "instructor", "materials", "agenda",
      "attendees">>

\* dict.get(k): None for a missing key
Get(d, k) == IF d[k] = Absent THEN NoneTok ELSE d[k]

DetermineChangeType(old, new) ==
    IF old = NoneTok /\ new /= NoneTok THEN "added"
    ELSE IF old /= NoneTok /\ new = NoneTok THEN "removed"
    ELSE "modified"

\* the changes list of _analyze_changes for stored data d and update payload p
Changes(d, p) ==
    LET ks == SelectSeq(KeyOrder, LAMBDA k : p[k] /= Absent /\ Get(d, k) /= p[k])
    IN  [i \in 1..Len(ks) |->
            [field |-> ks[i], old_value |-> Get(d, ks[i]), new_value |-> p[ks[i]],
             change_type |-> DetermineChangeType(Get(d, ks[i]), p[ks[i]])]]

\* _validate_event_exists: the result of get_event, an exception turned into a failure
ValidateEventExists(g, exists) ==
    IF g = "raise" THEN [success |-> FALSE, error |-> "get_event raised"]
    ELSE IF g = "error" THEN [success |-> FALSE, error |-> "Firestore error"]
    ELSE IF ~exists THEN [success |-> FALSE, error |-> "Event not found"]
    ELSE [success |-> TRUE, error |-> ""]

\* _analyze_changes
AnalyzeChangesResult(g, exists, d, p) ==
    IF g = "raise" THEN [success |-> FALSE, changes |-> <<>>, error |-> "get_event raised"]
    ELSE IF g = "error" \/ ~exists
    THEN [success |-> FALSE, changes |-> <<>>, error |-> "Could not retrieve current event data"]
    ELSE [success |-> TRUE, changes |-> Changes(d, p), error |-> ""]

\* _update_event_type_dependencies, _update_venue_dependencies, _update_date_dependencies:
\* each returns its own constant result
UpdateEventTypeDependencies(new_type) == [success |-> TRUE, type |-> "event_type_dependency"]
UpdateVenueDependencies(new_venue) == [success |-> TRUE, type |-> "venue_dependency"]
UpdateDateDependencies(new_date) == [success |-> TRUE, type |-> "date_dependency"]

DependentFields == {"event_type", "venue", "date"}
\* the if/elif chain of lines 445-458: the handler that is called for change c
DependentHandler(c) ==
    IF c.field = "event_type" THEN UpdateEventTypeDependencies(c.new_value)
    ELSE IF c.field = "venue" THEN UpdateVenueDependencies(c.new_value)
    ELSE UpdateDateDependencies(c.new_value)

\* mutant of HandleDependentUpdates: any change of a dependent field runs all three handlers
HandleDependentUpdatesRederivesAll(changes) ==
    [success |-> TRUE,
     updates |-> IF \E i \in 1..Len(changes) : changes[i].field \in DependentFields
                 THEN <<UpdateEventTypeDependencies(""), UpdateVenueDependencies(""),
                        UpdateDateDependencies("")>>
                 ELSE <<>>]

\* _handle_dependent_updates: the results of the handlers that reported success, in the
\* order of the changes
HandleDependentUpdates(changes) ==
    LET hit == SelectSeq(changes, LAMBDA c : c.field \in DependentFields)
        ran == [i \in 1..Len(hit) |-> DependentHandler(hit[i])]
    IN  [success |-> TRUE, updates |-> SelectSeq(ran, LAMBDA u : u.success)]

\* the return value of the success path of orchestrate_event_update
UpdateSuccessResult(changes, updates) ==
    [returned |-> TRUE, raised |-> FALSE,
     keys |-> {"success", "workflow_id", "event_id", "workflow_duration", "changes_applied",
               "dependent_updates"},
     success |-> TRUE, error |-> "", event_id |-> 0, steps_completed |-> 0,
     changes_applied |-> changes, dependent_updates |-> updates]

\* event_data.update(payload) with the status written by EventHandler.update_event
MergeUpdate(d, p) ==
    [k \in Keys |-> IF k = "status" THEN "updated" ELSE IF p[k] /= Absent THEN p[k] ELSE d[k]]

ErrUpdate == "update_event failed"

\* lines 113-124: a fresh workflow_state for the update payload p
StartUpdate(p, exists) ==
    /\ fpc = "idle"
    /\ mode = "none" /\ pc = "idle"
    /\ docExists' = exists
    /\ mode' = "update"
    /\ original' = p
    /\ payload' = p
    /\ wf' = NewWorkflow
    /\ pre' = NoPre
    /\ createResult' = NoCreate
    /\ fallbackPayload' = EmptyPayload
    /\ createCalls' = <<>>
    /\ processCalls' = <<>>
    /\ correctCalls' = <<>>
    /\ ret' = NoRet
    /\ analysis' = NoAnalysis
    /\ updateCalls' = <<>>
    /\ pc' = "validate_event"
    /\ UNCHANGED <<stored, nextId, doc, batchVars>>
    /\ OpenRun("update")
    /\ UNCHANGED <<fbVars, afVars>>

\* step 1: _validate_event_exists, its step record, and the return when it failed
ValidateEvent ==
    /\ pc = "validate_event"
    /\ \E g \in GetOutcomes :
        LET check == ValidateEventExists(g, docExists)
            w == [wf EXCEPT !.steps = Append(@, Step("validate_event", check.success))]
        IN  IF ~check.success
            THEN HandleWorkflowFailure(w, check.error)
            ELSE /\ wf' = w
                 /\ pc' = "analyze_changes"
                 /\ UNCHANGED <<stored, ret>>
    /\ UNCHANGED <<mode, original, payload, pre, createResult, fallbackPayload, createCalls, processCalls,
                   correctCalls, nextId, updVars>>
    /\ UNCHANGED <<fbVars, afVars, procVars>>
    /\ UNCHANGED batchVars

\* step 2: _analyze_changes and its step record; the run goes on whatever the result
AnalyzeChanges ==
    /\ pc = "analyze_changes"
    /\ \E g \in GetOutcomes :
        /\ analysis' = AnalyzeChangesResult(g, docExists, doc, payload)
        /\ wf' = [wf EXCEPT !.steps = Append(@, Step("analyze_changes", analysis'.success))]
    /\ pc' = "update_event"
    /\ UNCHANGED <<mode, original, payload, pre, createResult, fallbackPayload, createCalls, processCalls,
                   correctCalls, stored, nextId, ret, docExists, doc, updateCalls>>
    /\ UNCHANGED <<fbVars, afVars, procVars>>
    /\ UNCHANGED batchVars

\* mutant of UpdateFailed: the fallback engine is given the payload before the run fails
UpdateFailedWithFallback(w, error) ==
    /\ HandleWorkflowFailure(w, error)
    /\ processCalls' = Append(processCalls, payload)
    /\ UNCHANGED <<correctCalls, createCalls>>

\* lines 153-154: the update failed, the run is marked failed with the update's error
UpdateFailed(w, error) ==
    /\ HandleWorkflowFailure(w, error)
    /\ UNCHANGED <<processCalls, correctCalls, createCalls>>

\* step 3: event_handler.update_event(event_id, payload) returns a result
UpdateEvent ==
    /\ pc = "update_event"
    /\ updateCalls' = Append(updateCalls, payload)
    /\ \E out \in UpdateOutcomes \ {"raise"} :
        LET w == [wf EXCEPT !.steps = Append(@, Step("update_event", out = "ok"))]
        IN  IF out = "ok"
            THEN /\ wf' = w
                 /\ doc' = MergeUpdate(doc, payload)
                 /\ pc' = "dependent_updates"
                 /\ UNCHANGED <<stored, ret, processCalls, correctCalls, createCalls>>
            ELSE /\ UpdateFailed(w, ErrUpdate)
                 /\ UNCHANGED doc
    /\ UNCHANGED <<mode, original, payload, pre, createResult, fallbackPayload, nextId, docExists, analysis>>
    /\ UNCHANGED <<fbVars, afVars, procVars>>
    /\ UNCHANGED batchVars

\* step 3 when the call raises: the 'except Exception' clause of lines 183-189 returns
UpdateEventRaises ==
    /\ pc = "update_event"
    /\ updateCalls' = Append(updateCalls, payload)
    /\ ret' = ExceptResult("update_event raised")
    /\ pc' = "returned"
    /\ UNCHANGED <<mode, original, payload, wf, pre, createResult, fallbackPayload, createCalls,
                   processCalls, correctCalls, stored, nextId, docExists, doc, analysis>>
    /\ UNCHANGED <<fbVars, afVars, procVars>>
    /\ UNCHANGED batchVars

\* step 4 and the completion of the workflow, lines 156-181
DependentUpdates ==
    /\ pc = "dependent_updates"
    /\ LET du == HandleDependentUpdates(analysis.changes)
       IN  /\ wf' = [wf EXCEPT !.steps = Append(@, Step("dependent_updates", du.success)),
                               !.status = "completed"]
           /\ stored' = StoreWorkflowResult(wf')
           /\ ret' = UpdateSuccessResult(analysis.changes, du.updates)
    /\ pc' = "returned"
    /\ UNCHANGED <<mode, original, payload, pre, createResult, fallbackPayload, createCalls, processCalls,
                   correctCalls, nextId, updVars>>
    /\ UNCHANGED <<fbVars, afVars, procVars>>
    /\ UNCHANGED batchVars


\* --------------------------------------------- orchestrate_batch_processing
NoBatch ==
    [status |-> "none", total_events |-> 0, processed_events |-> 0, failed_events |-> 0,
     results |-> <<>>]
NoBatchRet ==
    [returned |-> FALSE, keys |-> {}, success |-> FALSE, error |-> "", total_events |-> 0,
     processed_events |-> 0, failed_events |-> 0, results |-> <<>>]

\* all lists of at most MaxBatch payloads
EventLists == UNION {[1..n -> BatchPayloads] : n \in 0..MaxBatch}

\* 'async with semaphore' lets a task in while the counter is positive
SemaphoreFree == sem > 0
\* mutant of LoopIdle: the body under the semaphore awaits, the loop starts other tasks meanwhile
LoopIdleWhileAwaiting == TRUE
\* the event loop runs one task at a time, and the body under the semaphore has no await
LoopIdle == cur = 0
\* mutant of CanEnter: the tasks are started in order without waiting for a slot
CanEnterWithoutSlot(i) == \A j \in 1..(i - 1) : taskState[j] /= "pending"

\* whether task i may enter its pipeline: tasks start in the order gather was given them
CanEnter(i) ==
    /\ SemaphoreFree
    /\ LoopIdle
    /\ \A j \in 1..(i - 1) : taskState[j] /= "pending"

InFlight == {i \in 1..Len(events) : taskState[i] = "running"}

\* what the loop over the gathered results reads of a result
GatheredResult(r) == [raised |-> r.raised, success |-> r.success, error |-> r.error, event_id |-> r.event_id]

\* lines 194-208: batch_state and the semaphore
StartBatch(evs) ==
    /\ fpc = "idle"
    /\ mode = "none" /\ pc = "idle"
    /\ mode' = "batch"
    /\ pc' = "gather"
    /\ events' = evs
    /\ taskState' = [i \in 1..Len(evs) |-> "pending"]
    /\ taskResult' = [i \in 1..Len(evs) |-> GatheredResult(NoRet)]
    /\ sem' = ConcurrencyCap
    /\ cur' = 0
    /\ batch' = [NoBatch EXCEPT !.status = "started", !.total_events = Len(evs)]
    /\ UNCHANGED <<original, payload, wf, pre, createResult, fallbackPayload, createCalls,
                   processCalls, correctCalls, stored, nextId, ret, updVars, storedBatch, bret>>
    /\ OpenRun("batch")
    /\ UNCHANGED <<fbVars, afVars>>

\* lines 210-212: task i acquires the semaphore and calls orchestrate_event_creation
EnterPipeline(i) ==
    /\ mode = "batch"
    /\ i \in 1..Len(events)
    /\ taskState[i] = "pending"
    /\ CanEnter(i)
    /\ sem' = sem - 1
    /\ cur' = i
    /\ taskState' = [taskState EXCEPT ![i] = "running"]
    /\ BeginCreation(events[i])
    /\ UNCHANGED <<mode, stored, nextId, docExists, doc, events, taskResult, batch, storedBatch,
                   bret>>
    /\ UNCHANGED <<fbVars, afVars>>

\* lines 211-212: the creation returned; the task releases the semaphore and is done,
\* and the locals of the returned call are gone
LeavePipeline ==
    /\ mode = "batch" /\ pc = "returned" /\ cur /= 0
    /\ taskResult' = [taskResult EXCEPT ![cur] = GatheredResult(ret)]
    /\ taskState' = [taskState EXCEPT ![cur] = "done"]
    /\ sem' = sem + 1
    /\ cur' = 0
    /\ pc' = "gather"
    /\ original' = EmptyPayload
    /\ payload' = EmptyPayload
    /\ wf' = NewWorkflow
    /\ pre' = NoPre
    /\ createResult' = NoCreate
    /\ fallbackPayload' = EmptyPayload
    /\ createCalls' = <<>>
    /\ processCalls' = <<>>
    /\ correctCalls' = <<>>
    /\ stored' = <<>>
    /\ ret' = NoRet
    /\ eventDocs' = <<>>
    /\ UNCHANGED <<mode, nextId, updVars, events, batch, storedBatch, bret>>
    /\ UNCHANGED <<fbVars, afVars, cacheCalls, requests, clock, workflowIds, storedEvent, updateRuns>>

\* mutant of ResultEntry: the index of the entry is counted from one
ResultEntryOneBased(i, r) ==
    IF r.success
    THEN [event_index |-> i, success |-> TRUE, error |-> "", event_id |-> r.event_id]
    ELSE [event_index |-> i, success |-> FALSE, error |-> r.error, event_id |-> 0]

\* lines 223-245: the entry of the batch results for item i (1-based) with gathered result r
ResultEntry(i, r) ==
    IF r.raised
    THEN [event_index |-> i - 1, success |-> FALSE, error |-> r.error, event_id |-> 0]
    ELSE IF r.success
    THEN [event_index |-> i - 1, success |-> TRUE, error |-> "", event_id |-> r.event_id]
    ELSE [event_index |-> i - 1, success |-> FALSE, error |-> r.error, event_id |-> 0]

\* mutant of ProcessResults: the loop stops at the first failed item
RECURSIVE ProcessResultsShortCircuit(_, _, _)
ProcessResultsShortCircuit(b, rs, i) ==
    IF i > Len(rs) THEN b
    ELSE LET e == ResultEntry(i, rs[i])
         IN  IF ~e.success
             THEN [b EXCEPT !.failed_events = @ + 1, !.results = Append(@, e)]
             ELSE ProcessResultsShortCircuit(
                    [b EXCEPT !.processed_events = @ + 1, !.results = Append(@, e)], rs, i + 1)

\* lines 223-245: the loop over the gathered results
RECURSIVE ProcessResults(_, _, _)
ProcessResults(b, rs, i) ==
    IF i > Len(rs) THEN b
    ELSE LET e == ResultEntry(i, rs[i])
         IN  ProcessResults(
                [b EXCEPT !.processed_events = IF e.success THEN @ + 1 ELSE @,
                          !.failed_events = IF e.success THEN @ ELSE @ + 1,
                          !.results = Append(@, e)],
                rs, i + 1)

\* the return value of the success path of orchestrate_batch_processing
BatchResult(b) ==
    [returned |-> TRUE,
     keys |-> {"success", "batch_id", "total_events", "processed_events", "failed_events",
               "duration", "results"},
     success |-> TRUE, error |-> "", total_events |-> b.total_events,
     processed_events |-> b.processed_events, failed_events |-> b.failed_events,
     results |-> b.results]

\* the return value of the 'except Exception' clause of orchestrate_batch_processing
BatchExceptResult(message) ==
    [returned |-> TRUE, keys |-> {"success", "error", "batch_id"}, success |-> FALSE,
     error |-> message, total_events |-> 0, processed_events |-> 0, failed_events |-> 0,
     results |-> <<>>]

\* lines 220-268: gather has every result; the results are counted, the batch is stored
CompleteBatch ==
    /\ mode = "batch" /\ pc = "gather"
    /\ \A i \in 1..Len(events) : taskState[i] = "done"
    /\ batch' = [ProcessResults(batch, taskResult, 1) EXCEPT !.status = "completed"]
    /\ storedBatch' = Append(storedBatch, batch')
    /\ bret' = BatchResult(batch')
    /\ pc' = "batch_returned"
    /\ UNCHANGED <<mode, original, payload, wf, pre, createResult, fallbackPayload, createCalls,
                   processCalls, correctCalls, stored, nextId, ret, updVars, events, taskState,
                   taskResult, sem, cur>>
    /\ UNCHANGED <<fbVars, afVars, procVars>>

\* lines 208-220 raise (asyncio cannot set up or run the loop in the calling thread):
\* the 'except Exception' clause of lines 270-276 returns
BatchSetupRaises ==
    /\ mode = "batch" /\ pc = "gather"
    /\ \A i \in 1..Len(events) : taskState[i] = "pending"
    /\ bret' = BatchExceptResult("asyncio raised")
    /\ pc' = "batch_returned"
    /\ UNCHANGED <<mode, original, payload, wf, pre, createResult, fallbackPayload, createCalls,
                   processCalls, correctCalls, stored, nextId, ret, updVars, events, taskState,
                   taskResult, sem, cur, batch, storedBatch>>
    /\ UNCHANGED <<fbVars, afVars, procVars>>


\* ------------------------------------------------ FallbackEngine.handle_invalid_event
\* an error of the list: a str (its whitespace-separated words), or the dict that
\* ValidationResult.add_error appends (message, field, code)
ErrStr(words) == [kind |-> "str", words |-> words, field |-> ""]
ErrDict(words, field) == [kind |-> "dict", words |-> words, field |-> field]

\* "Missing required field: title", the wording of the validators
MissingTitleError == ErrStr(<<"Missing", "required", "field:", "title">>)
MissingTypeError == ErrStr(<<"Missing", "required", "field:", "event_type">>)
\* the same message as ValidationResult.add_error stores it
MissingTitleDict == ErrDict(<<"Missing", "required", "field:", "title">>, "title")
\* wordings in which the word 'field' stands alone
MissingTitlePlain == ErrStr(<<"Missing", "required", "field", "title">>)
InvalidEmailFormat == ErrStr(<<"Invalid", "format", "for", "field", "'email'">>)

\* str.lower() of a word
LowerWord(w) ==
    IF w = "Missing" THEN "missing" ELSE IF w = "Invalid" THEN "invalid"
    ELSE IF w = "Field" THEN "field" ELSE w
\* whether word w starts with s
StartsWith(w, s) == w = s \/ (s = "field" /\ w \in {"field:", "fields"})
\* phrase in error.lower(), for a phrase of whole words whose last word may go on
ContainsPhrase(words, phrase) ==
    \E i \in 1..Len(words) :
        /\ i + Len(phrase) - 1 <= Len(words)
        /\ \A j \in 1..Len(phrase) :
            IF j = Len(phrase) THEN StartsWith(LowerWord(words[i + j - 1]), phrase[j])
            ELSE LowerWord(words[i + j - 1]) = phrase[j]
\* str.strip of the quote characters
StripQuotes(w) == IF w = "'email'" THEN "email" ELSE w

\* _extract_field_name_from_error: the word after the first word that is exactly 'field'
ExtractFieldNameFromError(words) ==
    IF ~ContainsPhrase(words, <<"field">>) THEN NoneTok
    ELSE LET hits == {i \in 1..Len(words) : LowerWord(words[i]) = "field" /\ i + 1 <= Len(words)}
         IN  IF hits = {} THEN NoneTok
             ELSE StripQuotes(words[(CHOOSE i \in hits : \A j \in hits : i <= j) + 1])

GetDefaultValueForField(f) ==
    IF f = "title" THEN "Untitled Event" ELSE IF f = "event_type" THEN "general"
    ELSE IF f = "date" THEN NoneTok ELSE ""

\* _fix_field_format: strip().lower() of a str email
FixFieldFormat(v, f) == IF f = "email" /\ v = " A@B.C " THEN "a@b.c" ELSE v

\* one pass of the loop of _attempt_rule_based_correction for a str error
RuleCorrectOne(p, words) ==
    LET f == ExtractFieldNameFromError(words)
    IN  IF ContainsPhrase(words, <<"missing", "required", "field">>)
        THEN IF Truthy(f) /\ f \in Keys THEN [p EXCEPT ![f] = GetDefaultValueForField(f)] ELSE p
        ELSE IF ContainsPhrase(words, <<"invalid", "format">>)
        THEN IF Truthy(f) /\ f \in Keys /\ p[f] /= Absent
             THEN [p EXCEPT ![f] = FixFieldFormat(p[f], f)] ELSE p
        ELSE IF ContainsPhrase(words, <<"invalid", "value">>)
        THEN IF Truthy(f) /\ f \in Keys /\ p[f] /= Absent
             THEN [p EXCEPT ![f] = GetDefaultValueForField(f)] ELSE p
        ELSE p

RECURSIVE RuleCorrectAll(_, _)
RuleCorrectAll(p, errors) ==
    IF errors = <<>> THEN p
    ELSE RuleCorrectAll(RuleCorrectOne(p, Head(errors).words), Tail(errors))

\* _attempt_rule_based_correction: error.lower() raises for an error that is not a str;
\* otherwise the strategy reports success whether or not it changed anything
AttemptRuleBasedCorrection(p, errors) ==
    IF \E i \in 1..Len(errors) : errors[i].kind /= "str"
    THEN [success |-> FALSE, corrected_payload |-> EmptyPayload,
          error |-> "'dict' object has no attribute 'lower'"]
    ELSE [success |-> TRUE, corrected_payload |-> RuleCorrectAll(p, errors), error |-> ""]

\* _get_event_template; NoTemplate stands for None
NoTemplate == [k \in Keys |-> "<no template>"]
GetEventTemplate(t) ==
    IF t = "conference"
    THEN [k \in Keys |-> IF k = "event_type" THEN "conference"
                         ELSE IF k \in {"title", "description", "venue"} THEN ""
                         ELSE IF k = "date" THEN NoneTok
                         ELSE IF k = "capacity" THEN IntTok(DefaultCapacity) ELSE Absent]
    ELSE IF t = "workshop"
    THEN [k \in Keys |-> IF k = "event_type" THEN "workshop"
                         ELSE IF k \in {"title", "description", "instructor"} THEN ""
                         ELSE IF k = "duration" THEN IntTok(DefaultDuration)
                         ELSE IF k = "materials" THEN EmptyList ELSE Absent]
    ELSE IF t = "meeting"
    THEN [k \in Keys |-> IF k = "event_type" THEN "meeting"
                         ELSE IF k \in {"title", "description"} THEN ""
                         ELSE IF k \in {"agenda", "attendees"} THEN EmptyList ELSE Absent]
    ELSE NoTemplate

\* mutant of AttemptTemplateCorrection: the template is laid over the payload
AttemptTemplateCorrectionTemplateWins(p) ==
    LET t == GetEventTemplate(IF p["event_type"] = Absent THEN "general" ELSE p["event_type"])
    IN  IF t = NoTemplate
        THEN [success |-> FALSE, corrected_payload |-> EmptyPayload, error |-> "No template found"]
        ELSE [success |-> TRUE,
              corrected_payload |-> [k \in Keys |-> IF t[k] /= Absent THEN t[k] ELSE p[k]],
              error |-> ""]

\* _attempt_template_correction: the template of payload.get('event_type', 'general'),
\* updated with the payload
AttemptTemplateCorrection(p) ==
    LET t == GetEventTemplate(IF p["event_type"] = Absent THEN "general" ELSE p["event_type"])
    IN  IF t = NoTemplate
        THEN [success |-> FALSE, corrected_payload |-> EmptyPayload, error |-> "No template found"]
        ELSE [success |-> TRUE,
              corrected_payload |-> [k \in Keys |-> IF p[k] /= Absent THEN p[k] ELSE t[k]],
              error |-> ""]

\* ------------------------------------------------ GeminiLLM: the generative operations
\* max_retries of _generate_with_retry
MaxRetries == 3
\* what the model does at each attempt, generate_content raises or returns a response: a
\* service that fails its first k - 1 calls and answers from the k-th on
AttemptAnswers ==
    {[i \in 1..MaxRetries |-> IF i < k THEN "error" ELSE "response"] : k \in 1..(MaxRetries + 1)}

\* mutant of GenerateWithRetry: the loop goes on to the last attempt after a response
RECURSIVE GenerateWithRetryKeepsGoing(_, _)
GenerateWithRetryKeepsGoing(answers, attempt) ==
    IF attempt > MaxRetries THEN [invocations |-> MaxRetries, result |-> "none"]
    ELSE IF attempt < MaxRetries THEN GenerateWithRetryKeepsGoing(answers, attempt + 1)
    ELSE [invocations |-> attempt,
          result |-> IF answers[attempt] = "response" THEN "response" ELSE "raise"]

\* _generate_with_retry from attempt number `attempt` on: the number of generate_content
\* invocations made, and whether a response is returned or the last exception raised
RECURSIVE GenerateWithRetry(_, _)
GenerateWithRetry(answers, attempt) ==
    IF attempt > MaxRetries THEN [invocations |-> MaxRetries, result |-> "none"]
    ELSE IF answers[attempt] = "response" THEN [invocations |-> attempt, result |-> "response"]
    ELSE IF attempt < MaxRetries THEN GenerateWithRetry(answers, attempt + 1)
    ELSE [invocations |-> attempt, result |-> "raise"]

\* correct_event_data / generate_autofill_suggestions up to the parsing of the text: no
\* invocation when the model is not initialized, else one run of _generate_with_retry
GenerativeOperation(op, initialized, answers) ==
    IF ~initialized
    THEN [op |-> op, invocations |-> 0, answers |-> answers, outcome |-> "unavailable"]
    ELSE LET g == GenerateWithRetry(answers, 1)
         IN  [op |-> op, invocations |-> g.invocations, answers |-> answers,
              outcome |-> IF g.result = "response" THEN "text" ELSE "service_error"]

\* what the generative collaborator does in a call of correct_event_data: the model is not
\* initialized, the service fails, or it answers with a text
LlmOutcomes == {"unavailable", "service_error", "unparseable", "json"}
\* the JSON object of an answer that parses
LlmAnswer(p) == [p EXCEPT !["title"] = "Launch", !["event_type"] = "conference"]

\* GeminiLLM._parse_correction_response: the object of the text, {} when there is none
ParseCorrectionResponse(out, p) == IF out = "json" THEN LlmAnswer(p) ELSE EmptyPayload

\* GeminiLLM.correct_event_data, and _attempt_llm_correction which passes its result on
AttemptLlmCorrection(out, p) ==
    IF out = "unavailable"
    THEN [success |-> FALSE, corrected_payload |-> EmptyPayload,
          error |-> "Gemini model not initialized"]
    ELSE IF out = "service_error"
    THEN [success |-> FALSE, corrected_payload |-> EmptyPayload, error |-> "No response from Gemini"]
    ELSE [success |-> TRUE, corrected_payload |-> ParseCorrectionResponse(out, p), error |-> ""]

NoFbResult ==
    [returned |-> FALSE, success |-> FALSE, corrected_payload |-> EmptyPayload,
     correction_method |-> "", error |-> "", original_errors |-> <<>>]

\* the order in which handle_invalid_event invokes the strategies
CascadeOrder == <<"llm", "rules", "template">>

\* lines 30-36, 40-46, 50-56: the result when strategy number n succeeded with result r
CorrectedResult(n, r, errors) ==
    [returned |-> TRUE, success |-> TRUE, corrected_payload |-> r.corrected_payload,
     correction_method |-> CascadeOrder[n], error |-> "", original_errors |-> errors]

\* mutant of ExhaustedResult: the failure result loses the error list
ExhaustedResultDropsErrors(errors) ==
    [returned |-> TRUE, success |-> FALSE, corrected_payload |-> EmptyPayload,
     correction_method |-> "", error |-> "Unable to correct validation errors",
     original_errors |-> <<>>]

\* lines 58-64: the result when every strategy failed
ExhaustedResult(errors) ==
    [returned |-> TRUE, success |-> FALSE, corrected_payload |-> EmptyPayload,
     correction_method |-> "", error |-> "Unable to correct validation errors",
     original_errors |-> errors]

\* the payloads and error lists handle_invalid_event is called with
FbPayloads ==
    {[EmptyPayload EXCEPT !["event_type"] = "conference"],
     [EmptyPayload EXCEPT !["title"] = "Launch"],
     [EmptyPayload EXCEPT !["title"] = "Launch", !["event_type"] = "party", !["email"] = " A@B.C "],
     [EmptyPayload EXCEPT !["event_type"] = "workshop", !["title"] = ""],
     [EmptyPayload EXCEPT !["event_type"] = "conference", !["venue"] = "Hall A", !["capacity"] = "#50",
                          !["email"] = "a@b.c"],
     EmptyPayload}
FbErrorLists ==
    {<<MissingTitleError>>, <<MissingTitleError, MissingTypeError>>, <<MissingTypeError>>,
     <<MissingTitlePlain>>, <<InvalidEmailFormat>>, <<MissingTitleDict>>,
     <<MissingTitleError, MissingTitleDict>>, <<>>}

\* lines 23-27: handle_invalid_event is called
StartHandleInvalid(p, errors) ==
    /\ mode = "none" /\ pc = "idle" /\ fpc = "idle"
    /\ fpc' = "llm"
    /\ fbPayload' = p
    /\ fbErrors' = errors
    /\ fbLlm' = ""
    /\ fbTried' = <<>>
    /\ fbResult' = NoFbResult
    /\ genCalls' = <<>>
    /\ UNCHANGED <<fbStored, orchVars, afCache, afClock, afCall, incCall, ehCall, procVars>>

\* mutant of StrategyDone: the cascade goes on to the next strategy after a success
StrategyDoneGoesOn(n, r) ==
    /\ fbTried' = Append(fbTried, [strategy |-> CascadeOrder[n], success |-> r.success])
    /\ IF n = Len(CascadeOrder)
       THEN /\ fbResult' = IF r.success THEN CorrectedResult(n, r, fbErrors)
                           ELSE ExhaustedResult(fbErrors)
            /\ fpc' = "returned"
       ELSE /\ fpc' = CascadeOrder[n + 1]
            /\ UNCHANGED fbResult

\* one strategy of the cascade ran with result r: return when it succeeded, else go on
StrategyDone(n, r) ==
    /\ fbTried' = Append(fbTried, [strategy |-> CascadeOrder[n], success |-> r.success])
    /\ IF r.success
       THEN /\ fbResult' = CorrectedResult(n, r, fbErrors)
            /\ fpc' = "returned"
       ELSE IF n = Len(CascadeOrder)
       THEN /\ fbResult' = ExhaustedResult(fbErrors)
            /\ fpc' = "returned"
       ELSE /\ fpc' = CascadeOrder[n + 1]
            /\ UNCHANGED fbResult

\* lines 28-36
LlmStrategy ==
    /\ fpc = "llm"
    /\ \E initialized \in BOOLEAN, answers \in AttemptAnswers, text \in {"unparseable", "json"} :
        LET g == GenerativeOperation("correct_event_data", initialized, answers)
            out == IF g.outcome = "text" THEN text ELSE g.outcome
        IN  /\ fbLlm' = out
            /\ genCalls' = Append(genCalls, g)
            /\ StrategyDone(1, AttemptLlmCorrection(out, fbPayload))
    /\ UNCHANGED <<fbPayload, fbErrors, fbStored, orchVars, afCache, afClock, afCall, incCall,
                   ehCall, procVars>>

\* lines 38-46
RulesStrategy ==
    /\ fpc = "rules"
    /\ StrategyDone(2, AttemptRuleBasedCorrection(fbPayload, fbErrors))
    /\ UNCHANGED <<fbPayload, fbErrors, fbLlm, fbStored, orchVars, afVars, procVars>>

\* lines 48-64
TemplateStrategy ==
    /\ fpc = "template"
    /\ StrategyDone(3, AttemptTemplateCorrection(fbPayload))
    /\ UNCHANGED <<fbPayload, fbErrors, fbLlm, fbStored, orchVars, afVars, procVars>>

\* ------------------------------------------------ FallbackEngine.process_event as a call
\* the payloads process_event is called with
ProcessPayloads ==
    {[EmptyPayload EXCEPT !["event_name"] = "Kickoff", !["event_type"] = "conference"],
     [EmptyPayload EXCEPT !["name"] = "Kickoff"],
     [EmptyPayload EXCEPT !["title"] = "Launch", !["event_type"] = "conference", !["capacity"] = "50"],
     [EmptyPayload EXCEPT !["title"] = "Launch", !["price"] = "50", !["email"] = "nobody"],
     [EmptyPayload EXCEPT !["title"] = "Launch", !["email"] = "#7"],
     GoodPayload}

\* process_event, lines 74-121, with its call of _store_fallback_result
ProcessEventCall(p) ==
    /\ mode = "none" /\ pc = "idle" /\ fpc = "idle"
    /\ fpc' = "pe_returned"
    /\ fbPayload' = p
    /\ LET r == ProcessEvent(p)
       IN  /\ fbResult' = [NoFbResult EXCEPT !.returned = TRUE, !.success = r.success,
                                             !.corrected_payload = r.processed_payload,
                                             !.error = r.error]
    /\ fbStored' = ProcessEventStores(fbStored, p)
    /\ fbErrors' = <<>>
    /\ fbLlm' = ""
    /\ fbTried' = <<>>
    /\ UNCHANGED <<orchVars, afVars, procVars>>

\* =================================================================== AutofillEngine
\* A form_fields dict is a record: empty says that the dict is {}, fields is its 'fields'
\* list.  A field is a dict with name, type and value; autofilled is FALSE and
\* autofill_source is "" while the field has no such key.  A payload of the autofill engine
\* is a record of its keys; its title is a number: title n > 0 stands for the n-th string of
\* a list of equally long titles in lexicographic order, title 0 for a payload without title.

\* len(self.cache) > 100
CacheLimit == 100
\* sorted(self.cache.keys())[:20]
EvictBatch == 20
\* similar_events[-5:]
SimilarSample == 5
\* values.count(most_common) >= len(values) * 0.6
MajorityPercent == 60

Field(n, t, v) == [name |-> n, type |-> t, value |-> v, autofilled |-> FALSE, autofill_source |-> ""]
NoFormFields == [empty |-> TRUE, fields |-> <<>>]
FormFields(fields) == [empty |-> FALSE, fields |-> fields]
\* field['value'] = v; field['autofilled'] = True; field['autofill_source'] = source
Fill(field, v, source) == [field EXCEPT !.value = v, !.autofilled = TRUE, !.autofill_source = source]
\* payload.get(k) for a key k other than title, Absent when the payload has no such key
AfGet(p, k) == IF k \in DOMAIN p THEN p[k] ELSE Absent
\* the value of dict.get: None for a key that is missing
GetOrNone(p, k) == IF AfGet(p, k) = Absent THEN NoneTok ELSE AfGet(p, k)

\* _load_autofill_rules
AutofillRules ==
    <<[field_name |-> "email", field_type |-> "email", action |-> "copy_from_contact_email"],
      [field_name |-> "phone", field_type |-> "tel", action |-> "copy_from_contact_phone"],
      [field_name |-> "venue", field_type |-> "text", action |-> "copy_from_location"]>>

\* _rule_matches_field, for every rule: the rules that match a field, by position
MatchingRules(n, t) ==
    {i \in 1..Len(AutofillRules) : AutofillRules[i].field_name = n /\ AutofillRules[i].field_type = t}

\* _evaluate_rule
EvaluateRule(rule, p) ==
    IF rule.action = "copy_from_contact_email" THEN GetOrNone(p, "contact_email")
    ELSE IF rule.action = "copy_from_contact_phone" THEN GetOrNone(p, "contact_phone")
    ELSE IF rule.action = "copy_from_location" THEN GetOrNone(p, "location")
    ELSE NoneTok

\* _should_autofill_field: the test is on the payload's key of the field's name
ShouldAutofillField(n, t, p) == ~Truthy(AfGet(p, n)) /\ MatchingRules(n, t) /= {}

\* _get_autofill_value: the first matching rule, else the name patterns, else None
GetAutofillValue(n, t, p) ==
    IF MatchingRules(n, t) /= {}
    THEN EvaluateRule(AutofillRules[CHOOSE i \in MatchingRules(n, t) :
                                        \A j \in MatchingRules(n, t) : i <= j], p)
    ELSE IF n = "email" /\ AfGet(p, "contact_email") /= Absent THEN p.contact_email
    ELSE IF n = "phone" /\ AfGet(p, "contact_phone") /= Absent THEN p.contact_phone
    ELSE IF n = "venue" /\ AfGet(p, "location") /= Absent THEN p.location
    ELSE NoneTok

\* mutant of RuleFill: the rule layer also flips the autofilled flag of a field it leaves
RuleFillFlipsFlag(field, p) ==
    IF ShouldAutofillField(field.name, field.type, p)
          /\ GetAutofillValue(field.name, field.type, p) /= NoneTok
    THEN Fill(field, GetAutofillValue(field.name, field.type, p), "rules")
    ELSE [field EXCEPT !.autofilled = ~field.autofilled]

\* the body of the loop of _apply_autofill_rules, lines 93-102
RuleFill(field, p) ==
    IF ShouldAutofillField(field.name, field.type, p)
          /\ GetAutofillValue(field.name, field.type, p) /= NoneTok
    THEN Fill(field, GetAutofillValue(field.name, field.type, p), "rules")
    ELSE field

\* _apply_autofill_rules
ApplyAutofillRules(ff, p) ==
    [ff EXCEPT !.fields = [i \in 1..Len(ff.fields) |-> RuleFill(ff.fields[i], p)]]

\* ---------------------------------------------------------------- generative layer
AiFieldNames == {"description", "summary", "notes", "details"}
AiFieldTypes == {"text", "textarea"}

\* _identify_ai_autofill_candidates, by position
IdentifyAiAutofillCandidates(ff) ==
    {i \in 1..Len(ff.fields) : /\ ~Truthy(ff.fields[i].value)
                               /\ ff.fields[i].type \in AiFieldTypes
                               /\ ff.fields[i].name \in AiFieldNames}

\* the dict without keys
NoSuggestions == [n \in {} |-> ""]
\* GeminiLLM._parse_autofill_response: the JSON object of the text, {} when there is none
ParseAutofillResponse(text) == IF text.parses THEN text.object ELSE NoSuggestions

\* _apply_ai_suggestions
ApplyAiSuggestions(ff, suggestions) ==
    [ff EXCEPT !.fields = [i \in 1..Len(ff.fields) |->
        IF ff.fields[i].name \in DOMAIN suggestions /\ ~Truthy(ff.fields[i].value)
        THEN Fill(ff.fields[i], suggestions[ff.fields[i].name], "ai")
        ELSE ff.fields[i]]]

\* _apply_ai_autofill: the form it returns and the generative operations it invoked; gen is
\* what the generative collaborator does when it is called
ApplyAiAutofill(ff, gen) ==
    IF IdentifyAiAutofillCandidates(ff) = {}
    THEN [form |-> ff, calls |-> <<>>]
    ELSE LET g == GenerativeOperation("generate_autofill_suggestions", gen.initialized, gen.answers)
         IN  [form |-> IF g.outcome = "text"
                       THEN ApplyAiSuggestions(ff, ParseAutofillResponse(gen.text))
                       ELSE ff,
              calls |-> <<g>>]

\* ---------------------------------------------------------------- similarity cache
\* cached_event.get(k) on a cache value, a dict with the keys payload, form_fields, timestamp
CachedEventGet(value, k) == IF k \in DOMAIN value THEN value[k] ELSE NoneTok

\* seq[-n:]
LastN(seq, n) == IF Len(seq) <= n THEN seq ELSE SubSeq(seq, Len(seq) - n + 1, Len(seq))

\* _find_similar_events: the cache values it returns
FindSimilarEvents(cache, p) ==
    LET event_type == IF p.event_type = Absent THEN "" ELSE p.event_type
        Similar(e) == /\ CachedEventGet(e.value, "event_type") = event_type
                      /\ ~e.value.form_fields.empty
        similar_events == SelectSeq(cache, Similar)
    IN  LastN([i \in 1..Len(similar_events) |-> similar_events[i].value], SimilarSample)

\* the places <<event, field>> of the sample that hold a non-empty value of field n:
\* the list `values` of _extract_common_values
ValuePlaces(sample, n) ==
    {pl \in UNION {{<<i, j>> : j \in 1..Len(sample[i].form_fields.fields)} : i \in 1..Len(sample)} :
        /\ sample[pl[1]].form_fields.fields[pl[2]].name = n
        /\ Truthy(sample[pl[1]].form_fields.fields[pl[2]].value)}

\* values.count(v)
ValueCount(sample, n, v) ==
    Cardinality({pl \in ValuePlaces(sample, n) : sample[pl[1]].form_fields.fields[pl[2]].value = v})

\* max(set(values), key=values.count): a value of the highest count (two values of the
\* same highest count both fail the threshold, so which of them is taken decides nothing)
MostCommon(sample, n) ==
    LET vals == {sample[pl[1]].form_fields.fields[pl[2]].value : pl \in ValuePlaces(sample, n)}
    IN  CHOOSE v \in vals : \A w \in vals : ValueCount(sample, n, v) >= ValueCount(sample, n, w)

\* mutant of MeetsThreshold: every most common value is taken
MeetsThresholdAlways(count, total) == count >= 1

\* values.count(most_common) >= len(values) * 0.6
MeetsThreshold(count, total) == count * 100 >= total * MajorityPercent

\* _extract_common_values
ExtractCommonValues(sample) ==
    LET all_fields == UNION {{sample[i].form_fields.fields[j].name :
                                 j \in 1..Len(sample[i].form_fields.fields)} : i \in 1..Len(sample)}
        common == {n \in all_fields :
                      /\ ValuePlaces(sample, n) /= {}
                      /\ MeetsThreshold(ValueCount(sample, n, MostCommon(sample, n)),
                                        Cardinality(ValuePlaces(sample, n)))}
    IN  [n \in common |-> MostCommon(sample, n)]

\* _apply_common_values
ApplyCommonValues(ff, common_values) ==
    [ff EXCEPT !.fields = [i \in 1..Len(ff.fields) |->
        IF ff.fields[i].name \in DOMAIN common_values /\ ~Truthy(ff.fields[i].value)
        THEN Fill(ff.fields[i], common_values[ff.fields[i].name], "cache")
        ELSE ff.fields[i]]]

\* _apply_cache_autofill, given the sample _find_similar_events returned
ApplyCacheAutofill(ff, sample) ==
    IF sample /= <<>> THEN ApplyCommonValues(ff, ExtractCommonValues(sample)) ELSE ff

\* the strings str(event_type) a cache key starts with, in lexicographic order
KeyTypes == <<"None", "conference", "general", "webinar">>

\* cache_key = f"{payload.get('event_type', 'general')}_{payload.get('title', '')}"
CacheKey(p) ==
    [event_type |-> IF p.event_type = Absent THEN "general"
                    ELSE IF p.event_type = NoneTok THEN "None" ELSE p.event_type,
     title |-> p.title]

\* k1 < k2 for two cache keys, as sorted() compares the strings: none of the type strings
\* starts another one, so the type decides, and the title among keys of one type
KeyBefore(k1, k2) ==
    LET rank(k) == CHOOSE i \in 1..Len(KeyTypes) : KeyTypes[i] = k.event_type
    IN  rank(k1) < rank(k2) \/ (rank(k1) = rank(k2) /\ k1.title < k2.title)

\* sorted(self.cache.keys())[:20]
OldestKeys(cache) ==
    LET keys == {cache[i].key : i \in 1..Len(cache)}
    IN  {k \in keys : Cardinality({k2 \in keys : KeyBefore(k2, k)}) < EvictBatch}

\* mutant of EvictedKeys: one key is removed at an overflow
EvictedKeysOneAtATime(cache) ==
    IF Len(cache) > CacheLimit
    THEN {k \in OldestKeys(cache) : \A k2 \in OldestKeys(cache) : k = k2 \/ KeyBefore(k, k2)}
    ELSE {}

\* lines 379-383: the keys deleted from a cache that just took an entry
EvictedKeys(cache) == IF Len(cache) > CacheLimit THEN OldestKeys(cache) ELSE {}

\* self.cache[cache_key] = {...}: a key the dict has keeps its place, a new one goes last
CacheSet(cache, key, value) ==
    IF \E i \in 1..Len(cache) : cache[i].key = key
    THEN [i \in 1..Len(cache) |-> IF cache[i].key = key THEN [key |-> key, value |-> value]
                                  ELSE cache[i]]
    ELSE Append(cache, [key |-> key, value |-> value])

\* _update_autofill_cache at time now: the cache it leaves
UpdateAutofillCache(cache, p, ff, now) ==
    LET inserted == CacheSet(cache, CacheKey(p), [payload |-> p, form_fields |-> ff, timestamp |-> now])
        oldest_keys == EvictedKeys(inserted)
        Kept(e) == e.key \notin oldest_keys
    IN  SelectSeq(inserted, Kept)

NoAfPayload == [event_type |-> Absent, title |-> 0]
NoAutofillCall ==
    [returned |-> FALSE, success |-> FALSE, error |-> "", form |-> NoFormFields, payload |-> NoAfPayload,
     rules |-> NoFormFields, ai |-> NoFormFields, form_fields |-> NoFormFields, sample |-> <<>>,
     before |-> <<>>, peak |-> 0]

\* what apply_autofill(event, payload) does to the engine, with event.form_fields = ff: the
\* early return for a form without fields, else the three layers and the cache update
AutofillOutcome(cache, now, ff, p, gen) ==
    IF ff.empty
    THEN [call |-> [NoAutofillCall EXCEPT !.returned = TRUE, !.payload = p, !.before = cache,
                                          !.error = "No form fields to autofill"],
          calls |-> <<>>, cache |-> cache]
    ELSE LET rules == ApplyAutofillRules(ff, p)
             ai == ApplyAiAutofill(rules, gen)
             sample == FindSimilarEvents(cache, p)
             cached == ApplyCacheAutofill(ai.form, sample)
         IN  [call |-> [returned |-> TRUE, success |-> TRUE, error |-> "", form |-> ff,
                        payload |-> p, rules |-> rules, ai |-> ai.form, form_fields |-> cached,
                        sample |-> sample, before |-> cache,
                        peak |-> Len(CacheSet(cache, CacheKey(p), <<>>))],
              calls |-> ai.calls,
              cache |-> UpdateAutofillCache(cache, p, cached, now)]

\* apply_autofill on the engine whose cache is afCache
AutofillEffects(ff, p, gen) ==
    LET o == AutofillOutcome(afCache, afClock + 1, ff, p, gen)
    IN  /\ afClock' = afClock + 1
        /\ afCall' = o.call
        /\ genCalls' = o.calls
        /\ afCache' = o.cache

\* apply_autofill as a call of its own
ApplyAutofill(ff, p, gen) ==
    /\ mode = "none" /\ pc = "idle" /\ fpc = "idle"
    /\ AutofillEffects(ff, p, gen)
    /\ UNCHANGED <<orchVars, fbVars, incCall, ehCall, procVars>>

\* ------------------------------------ _update_autofill_cache called by several threads
\* Threads that call apply_autofill on one engine share self.cache. The interpreter runs
\* one dict operation (a store, len, sorted over the keys, a del) at a time, so each of
\* them is one step of its caller; the steps of different callers interleave freely.
\* threads that call the engine at the same time
MaxCallers == 2
Callers == 1..MaxCallers

NoCacheCall ==
    [pc |-> "idle", key |-> CacheKey(NoAfPayload), overflow |-> FALSE, oldest_keys |-> <<>>,
     next |-> 1, removed |-> 0, raised |-> FALSE]

\* the payload of caller t: an event of its own, later in key order than the cached ones
CallerPayload(t) == [event_type |-> "conference", title |-> CacheLimit + t]

\* the form fields its call has filled
CallerForm == FormFields(<<Field("venue", "text", "Hall A")>>)

\* oldest_keys = sorted(self.cache.keys())[:20], the list in its order
OldestKeyList(cache) ==
    LET old == OldestKeys(cache)
    IN  [i \in 1..Cardinality(old) |->
            CHOOSE k \in old : Cardinality({k2 \in old : KeyBefore(k2, k)}) = i - 1]

\* key in self.cache
InCache(cache, key) == \E i \in 1..Len(cache) : cache[i].key = key
\* del self.cache[key] for a key of the dict
CacheDel(cache, key) == SelectSeq(cache, LAMBDA e : e.key /= key)

\* lines 371-376: caller t stores its entry
CacheCallerStore(t) ==
    /\ cacheCalls[t].pc = "idle"
    /\ afCache' = CacheSet(afCache, CacheKey(CallerPayload(t)),
                           [payload |-> CallerPayload(t), form_fields |-> CallerForm,
                            timestamp |-> afClock + 1])
    /\ afClock' = afClock + 1
    /\ cacheCalls' = [cacheCalls EXCEPT ![t].pc = "stored", ![t].key = CacheKey(CallerPayload(t))]
    /\ UNCHANGED <<orchVars, fbVars, afCall, genCalls, incCall, ehCall, requests, clock, workflowIds, eventDocs, storedEvent, updateRuns>>

\* line 379: if len(self.cache) > 100
CacheCallerCheck(t) ==
    /\ cacheCalls[t].pc = "stored"
    /\ cacheCalls' = [cacheCalls EXCEPT ![t].pc = IF Len(afCache) > CacheLimit THEN "overflow" ELSE "done",
                                        ![t].overflow = Len(afCache) > CacheLimit]
    /\ UNCHANGED <<orchVars, fbVars, afVars, requests, clock, workflowIds, eventDocs, storedEvent, updateRuns>>

\* line 381: the keys to remove are chosen
CacheCallerSort(t) ==
    /\ cacheCalls[t].pc = "overflow"
    /\ cacheCalls' = [cacheCalls EXCEPT ![t].pc = "evicting", ![t].oldest_keys = OldestKeyList(afCache)]
    /\ UNCHANGED <<orchVars, fbVars, afVars, requests, clock, workflowIds, eventDocs, storedEvent, updateRuns>>

\* lines 382-383, one turn of the loop: del self.cache[key]; a key that is gone raises
\* KeyError, which the except clause of lines 385-386 logs, and the call returns
CacheCallerDel(t) ==
    /\ cacheCalls[t].pc = "evicting"
    /\ LET c == cacheCalls[t]
           key == c.oldest_keys[c.next]
       IN  IF InCache(afCache, key)
           THEN /\ afCache' = CacheDel(afCache, key)
                /\ cacheCalls' = [cacheCalls EXCEPT ![t].removed = @ + 1, ![t].next = @ + 1,
                                     ![t].pc = IF c.next = Len(c.oldest_keys) THEN "done" ELSE "evicting"]
           ELSE /\ cacheCalls' = [cacheCalls EXCEPT ![t].raised = TRUE, ![t].pc = "done"]
                /\ UNCHANGED afCache
    /\ UNCHANGED <<orchVars, fbVars, afClock, afCall, genCalls, incCall, ehCall, requests, clock, workflowIds, eventDocs, storedEvent, updateRuns>>

\* ------------------------------------------------------- apply_autofill_updates
\* An update payload is a dict whose order matters (payload.items()): the sequence of its
\* items, each a record of key and value.
AutofillTriggers == {"event_type", "title", "category", "venue"}
\* _is_autofill_trigger
IsAutofillTrigger(k, v) == k \in AutofillTriggers /\ Truthy(v)

\* relationships.get(trigger_key, []) of _find_related_fields
RelatedFieldNames(k) ==
    IF k = "event_type" THEN {"description", "requirements", "materials"}
    ELSE IF k = "title" THEN {"description", "summary"}
    ELSE IF k = "venue" THEN {"address", "capacity", "amenities"}
    ELSE IF k = "category" THEN {"tags", "keywords"}
    ELSE {}

\* _get_related_autofill_value: defaults.get(field_name); the list [v] is the token "[v]"
GetRelatedAutofillValue(k, v, n) ==
    IF n = "description" THEN "Description for " \o v
    ELSE IF n = "summary" THEN "Summary of " \o v
    ELSE IF n = "address" THEN "Default address"
    ELSE IF n = "capacity" THEN IntTok(100)
    ELSE IF n = "tags" THEN "[" \o v \o "]"
    ELSE NoneTok

\* mutant of IncrementalFill: a related field is written whatever it holds
IncrementalFillOverwrites(field, k, v) ==
    IF /\ field.name \in RelatedFieldNames(k)
       /\ GetRelatedAutofillValue(k, v, field.name) /= NoneTok
    THEN Fill(field, GetRelatedAutofillValue(k, v, field.name), "incremental")
    ELSE field

\* lines 163-173 for one field and one trigger item of the payload
IncrementalFill(field, k, v) ==
    IF /\ field.name \in RelatedFieldNames(k)
       /\ (~Truthy(field.value) \/ field.autofilled)
       /\ GetRelatedAutofillValue(k, v, field.name) /= NoneTok
    THEN Fill(field, GetRelatedAutofillValue(k, v, field.name), "incremental")
    ELSE field

\* _apply_incremental_autofill from the i-th item of the payload on
RECURSIVE ApplyIncrementalAutofill(_, _, _)
ApplyIncrementalAutofill(ff, items, i) ==
    IF i > Len(items) THEN ff
    ELSE ApplyIncrementalAutofill(
             IF IsAutofillTrigger(items[i].key, items[i].value)
             THEN [ff EXCEPT !.fields = [j \in 1..Len(ff.fields) |->
                                            IncrementalFill(ff.fields[j], items[i].key, items[i].value)]]
             ELSE ff,
             items, i + 1)

NoUpdatesCall ==
    [returned |-> FALSE, success |-> FALSE, error |-> "", form |-> NoFormFields, payload |-> <<>>,
     form_fields |-> NoFormFields]

\* apply_autofill_updates(event_data, payload) with event_data['form_fields'] = ff
ApplyAutofillUpdates(ff, items) ==
    /\ mode = "none" /\ pc = "idle" /\ fpc = "idle"
    /\ incCall' = IF ff.empty
                  THEN [NoUpdatesCall EXCEPT !.returned = TRUE, !.payload = items,
                                             !.error = "No form fields to update"]
                  ELSE [returned |-> TRUE, success |-> TRUE, error |-> "", form |-> ff,
                        payload |-> items, form_fields |-> ApplyIncrementalAutofill(ff, items, 1)]
    /\ UNCHANGED <<orchVars, fbVars, afCache, afClock, afCall, genCalls, ehCall, procVars>>

\* -------------------------------- EventHandler.update_event in concurrent worker processes
\* worker processes that serve an update of the same event at the same time
\* (gunicorn_config.py: several sync workers, one request each)
MaxRunners == 2
Runners == 1..MaxRunners
NoUpdateRun == [pc |-> "idle", payload |-> EmptyPayload, event_data |-> EmptyPayload]

\* payloads of the update requests
RunPayloads ==
    {[EmptyPayload EXCEPT !["venue"] = "Hall B"],
     [EmptyPayload EXCEPT !["title"] = "Summit"],
     [EmptyPayload EXCEPT !["capacity"] = "#100"],
     [EmptyPayload EXCEPT !["venue"] = "Hall C", !["date"] = "@dt"]}

\* FirestoreClient._prepare_update_document: a copy of the whole event_data (the timestamp
\* it adds is not among the keys of the model)
PrepareUpdateDocument(event_data) == event_data

\* doc_ref.update(update_data): every field of update_data is set, the others are kept
DocumentUpdate(d, update_data) ==
    [k \in Keys |-> IF update_data[k] /= Absent THEN update_data[k] ELSE d[k]]

\* line 83: get_event returns the document as it is now
UpdateRunGet(r, p) ==
    /\ mode = "none" /\ pc = "idle" /\ fpc = "idle"
    /\ updateRuns[r].pc = "idle"
    /\ updateRuns' = [updateRuns EXCEPT ![r] = [pc |-> "read", payload |-> p, event_data |-> storedEvent]]
    /\ UNCHANGED <<orchVars, fbVars, afVars, cacheCalls, requests, clock, workflowIds, eventDocs, storedEvent>>

\* lines 91-104: the payload is merged into the copy the run read
UpdateRunMerge(r) ==
    /\ updateRuns[r].pc = "read"
    /\ updateRuns' = [updateRuns EXCEPT ![r].pc = "merged",
                                        ![r].event_data = MergeUpdate(@, updateRuns[r].payload)]
    /\ UNCHANGED <<orchVars, fbVars, afVars, cacheCalls, requests, clock, workflowIds, eventDocs, storedEvent>>

\* line 107: firestore_client.update_event writes the whole merged copy
UpdateRunWrite(r) ==
    /\ updateRuns[r].pc = "merged"
    /\ storedEvent' = DocumentUpdate(storedEvent, PrepareUpdateDocument(updateRuns[r].event_data))
    /\ updateRuns' = [updateRuns EXCEPT ![r].pc = "done"]
    /\ UNCHANGED <<orchVars, fbVars, afVars, cacheCalls, requests, clock, workflowIds, eventDocs>>


\* ------------------------------------------------------- EventHandler.create_event
\* the fields of the dataclass EventModel that create_event or the stores read; its other
\* fields are the form's fields of lines 23-81, none of them named title or description
EventModelFields ==
    {"event_id", "event_type", "status", "eventName", "eventDescription", "venue", "metadata",
     "form_fields", "layout", "created_at", "updated_at"}
\* the keywords create_event passes to EventModel, lines 34-42
CreateEventKeywords ==
    {"event_id", "event_type", "title", "description", "metadata", "created_at", "status"}
\* the constructor of a dataclass raises TypeError for a keyword that is none of its fields
EventModelRaises(keywords) == ~(keywords \subseteq EventModelFields)

NoHandlerCall ==
    [returned |-> FALSE, success |-> FALSE, error |-> "", document_store |-> "", metadata_store |-> "",
     payload |-> NoAfPayload, document_writes |-> 0, metadata_writes |-> 0, documents |-> 0]

\* create_event(payload): ff is the form _generate_form_fields makes, gen what the generative
\* collaborator does in apply_autofill, docOut and metaOut what store_event and
\* store_event_metadata return when they are called
HandlerCreateEventOn(p, ff, gen, docOut, metaOut) ==
    /\ mode = "none" /\ pc = "idle" /\ fpc = "idle"
    /\ IF EventModelRaises(CreateEventKeywords)
       THEN /\ ehCall' = [NoHandlerCall EXCEPT !.returned = TRUE, !.document_store = docOut,
                              !.metadata_store = metaOut, !.payload = p,
                              !.error = "unexpected keyword argument 'title'"]
            /\ UNCHANGED <<afCache, afClock, afCall, genCalls>>
       ELSE /\ AutofillEffects(ff, p, gen)
            /\ ehCall' = [returned |-> TRUE, success |-> docOut = "ok",
                          error |-> IF docOut = "ok" THEN "" ELSE "Failed to store in Firestore",
                          document_store |-> docOut, metadata_store |-> metaOut, payload |-> p,
                          document_writes |-> 1,
                          metadata_writes |-> IF docOut = "ok" THEN 1 ELSE 0,
                          documents |-> IF docOut = "ok" THEN 1 ELSE 0]

\* create_event as a call of its own
HandlerCreateEvent(p, ff, gen, docOut, metaOut) ==
    /\ HandlerCreateEventOn(p, ff, gen, docOut, metaOut)
    /\ UNCHANGED <<orchVars, fbVars, incCall, procVars>>

\* ------------------------------------------------ the entry points and their engines
\* AutofillEngine.__init__: self.cache = {}, a dict of the new engine
AutofillEngineInit == <<>>
\* the engine the process had at its start: the one of the handler the orchestrator keeps
\* (EventOrchestrator.__init__, self.event_handler = EventHandler())
OrchestratorEngine == 0
\* requests a run of the process serves
MaxRequests == 3

\* the keys of the entries of cache `after` that cache `before` did not hold as they are
WrittenKeys(before, after) ==
    {after[i].key : i \in {j \in 1..Len(after) : \A k \in 1..Len(before) : before[k] /= after[j]}}

\* event_routes.py lines 42-44: the route builds an EventHandler, and with it an
\* AutofillEngine, for the request, calls create_event on it and drops it
RouteCreateEvent(p, ff, gen, docOut, metaOut) ==
    /\ mode = "none" /\ pc = "idle" /\ fpc = "idle"
    /\ Len(requests) < MaxRequests
    /\ LET engine == Len(requests) + 1
           o == IF EventModelRaises(CreateEventKeywords)
                THEN [cache |-> AutofillEngineInit]
                ELSE AutofillOutcome(AutofillEngineInit, afClock + 1, ff, p, gen)
       IN  /\ requests' = Append(requests, [entry |-> "route", engine |-> engine,
                                            before |-> AutofillEngineInit, after |-> o.cache])
           /\ ehCall' = IF EventModelRaises(CreateEventKeywords)
                        THEN [NoHandlerCall EXCEPT !.returned = TRUE, !.document_store = docOut,
                                  !.metadata_store = metaOut, !.payload = p,
                                  !.error = "unexpected keyword argument 'title'"]
                        ELSE [returned |-> TRUE, success |-> docOut = "ok",
                              error |-> IF docOut = "ok" THEN "" ELSE "Failed to store in Firestore",
                              document_store |-> docOut, metadata_store |-> metaOut, payload |-> p,
                              document_writes |-> 1,
                              metadata_writes |-> IF docOut = "ok" THEN 1 ELSE 0,
                              documents |-> IF docOut = "ok" THEN 1 ELSE 0]
    /\ UNCHANGED <<orchVars, fbVars, afCache, afClock, afCall, genCalls, incCall, cacheCalls, clock, workflowIds, eventDocs, storedEvent, updateRuns>>

\* a creation that comes in through the orchestrator: create_event on the handler, and the
\* engine, that the orchestrator has kept since its construction
OrchestratorCreateEvent(p, ff, gen, docOut, metaOut) ==
    /\ Len(requests) < MaxRequests
    /\ HandlerCreateEventOn(p, ff, gen, docOut, metaOut)
    /\ requests' = Append(requests, [entry |-> "orchestrator", engine |-> OrchestratorEngine,
                                     before |-> afCache, after |-> afCache'])
    /\ UNCHANGED <<orchVars, fbVars, incCall, cacheCalls, clock, workflowIds, eventDocs, storedEvent, updateRuns>>

\* ------------------------------------------------------------ inputs of the engine
\* calls of apply_autofill in a run that exercises the three layers
MaxLayerCalls == 2
\* calls of apply_autofill in a run that fills the similarity cache
MaxSimilarCalls == 7
\* titles the caller of a run that overflows the cache has
TitleCount == 125
\* calls of such a run that repeat the title of the call before, on a full cache
MaxRepeats == 1

LayerForms ==
    {NoFormFields,
     FormFields(<<Field("email", "email", ""), Field("phone", "tel", ""), Field("venue", "text", "Hall A"),
                  Field("description", "textarea", ""), Field("notes", "number", "")>>),
     FormFields(<<Field("email", "email", "user@example.com"), Field("venue", "text", ""),
                  Field("description", "textarea", "Our plan"), Field("summary", "text", "")>>)}

LayerPayloads ==
    {[event_type |-> NoneTok, title |-> 1, contact_email |-> "c@example.com",
      contact_phone |-> "555-0100", location |-> "Main St"],
     [event_type |-> "conference", title |-> 1, email |-> "p@example.com",
      contact_email |-> "c@example.com", venue |-> ""],
     [event_type |-> NoneTok, title |-> 2]}

\* the texts the model answers a generate_autofill_suggestions prompt with
AutofillTexts ==
    {[parses |-> FALSE, object |-> NoSuggestions],
     [parses |-> TRUE, object |-> [n \in {"description"} |-> "AI text"]],
     [parses |-> TRUE, object |-> [n \in {"description", "summary", "venue"} |->
                                      IF n = "venue" THEN "AI venue" ELSE "AI text"]]}

LayerGens ==
    {[initialized |-> i, answers |-> a, text |-> t] :
        i \in BOOLEAN, a \in AttemptAnswers, t \in AutofillTexts}

\* a generative collaborator that is not initialized
NoGen == [initialized |-> FALSE, answers |-> [i \in 1..MaxRetries |-> "error"],
          text |-> [parses |-> FALSE, object |-> NoSuggestions]]

\* the form of a call that fills the similarity cache: one venue field
VenueForm(v) == FormFields(<<Field("venue", "text", v)>>)
\* such calls: the event type and the venue of the form; every call has a title of its own
SimilarCalls ==
    {<<NoneTok, "">>, <<NoneTok, "Hall A">>, <<NoneTok, "Hall B">>, <<"conference", "Hall A">>}

\* the payloads of the next call of a run that overflows the cache: conference payloads
\* come with ascending titles, webinar payloads with descending titles, and a call on a
\* full cache may repeat the title of the call before
CacheFeed ==
    IF afClock = 0
    THEN {[event_type |-> "conference", title |-> 1], [event_type |-> "webinar", title |-> TitleCount]}
    ELSE LET prev == afCall.payload
             used == IF prev.event_type = "conference" THEN prev.title ELSE TitleCount - prev.title + 1
             next == IF prev.event_type = "conference" THEN prev.title + 1 ELSE prev.title - 1
         IN  {[prev EXCEPT !.title = t] :
                 t \in {t \in {prev.title} : Len(afCache) = CacheLimit /\ afClock - used < MaxRepeats}
                        \cup {t \in {next} : t \in 1..TitleCount}}

\* the forms and payloads of apply_autofill_updates calls
FieldStates(n) ==
    {Field(n, "text", ""), Field(n, "text", "typed by the user"),
     Fill(Field(n, "text", ""), "filled before", "rules")}
IncForms ==
    {NoFormFields} \cup
    {FormFields(<<d, c, t, Field("venue", "text", v)>>) :
        d \in FieldStates("description"), c \in FieldStates("capacity"), t \in FieldStates("tags"),
        v \in {"", "Hall A"}}
Item(k, v) == [key |-> k, value |-> v]
IncPayloads ==
    {<<>>, <<Item("title", "Launch")>>, <<Item("title", "")>>,
     <<Item("event_type", "conference"), Item("title", "Launch")>>,
     <<Item("title", "Launch"), Item("event_type", "conference")>>,
     <<Item("venue", "Hall B")>>, <<Item("category", "sales"), Item("notes", "none")>>,
     <<Item("venue", "Hall B"), Item("category", "sales"), Item("title", "Launch")>>}

\* the payloads of create_event calls
HandlerPayloads ==
    {[event_type |-> t, title |-> n, contact_email |-> e, location |-> l] :
        t \in {Absent, NoneTok, "conference", "webinar"}, n \in 0..3,
        e \in {Absent, "c@example.com"}, l \in {Absent, "Main St"}}
StoreOutcomes == {"ok", "fail"}


vars == <<orchVars, fbVars, afVars, procVars>>

Init ==
    /\ mode = "none"
    /\ pc = "idle"
    /\ original = EmptyPayload
    /\ payload = EmptyPayload
    /\ wf = NewWorkflow
    /\ pre = NoPre
    /\ createResult = NoCreate
    /\ fallbackPayload = EmptyPayload
    /\ createCalls = <<>>
    /\ processCalls = <<>>
    /\ correctCalls = <<>>
    /\ stored = <<>>
    /\ nextId = 0
    /\ ret = NoRet
    /\ docExists = FALSE
    /\ doc = StoredDoc
    /\ analysis = NoAnalysis
    /\ updateCalls = <<>>
    /\ events = <<>>
    /\ taskState = <<>>
    /\ taskResult = <<>>
    /\ sem = ConcurrencyCap
    /\ cur = 0
    /\ batch = NoBatch
    /\ storedBatch = <<>>
    /\ bret = NoBatchRet
    /\ fpc = "idle"
    /\ fbPayload = EmptyPayload
    /\ fbErrors = <<>>
    /\ fbLlm = ""
    /\ fbTried = <<>>
    /\ fbResult = NoFbResult
    /\ fbStored = <<>>
    /\ afCache = <<>>
    /\ afClock = 0
    /\ afCall = NoAutofillCall
    /\ genCalls = <<>>
    /\ incCall = NoUpdatesCall
    /\ ehCall = NoHandlerCall
    /\ cacheCalls = [t \in Callers |-> NoCacheCall]
    /\ requests = <<>>
    /\ clock = 0
    /\ workflowIds = <<>>
    /\ eventDocs = <<>>
    /\ storedEvent = StoredDoc
    /\ updateRuns = [r \in Runners |-> NoUpdateRun]

\* no call is in progress: what every entry action requires, tested before its inputs
\* are enumerated
Idle == mode = "none" /\ pc = "idle" /\ fpc = "idle"

Next ==
    \/ Idle /\ \E p \in Payloads : StartCreation(p)
    \/ Preprocess
    \/ CreateEvent
    \/ FallbackRecovery
    \/ FallbackCreate
    \/ Postprocess
    \/ Idle /\ \E p \in UpdatePayloads, exists \in BOOLEAN : StartUpdate(p, exists)
    \/ ValidateEvent
    \/ AnalyzeChanges
    \/ UpdateEvent
    \/ DependentUpdates
    \/ Idle /\ \E evs \in EventLists : StartBatch(evs)
    \/ \E i \in 1..MaxBatch : EnterPipeline(i)
    \/ LeavePipeline
    \/ CompleteBatch
    \/ BatchSetupRaises
    \/ Idle /\ \E p \in FbPayloads, errors \in FbErrorLists : StartHandleInvalid(p, errors)
    \/ LlmStrategy
    \/ RulesStrategy
    \/ TemplateStrategy
    \/ Idle /\ \E p \in ProcessPayloads : ProcessEventCall(p)
    \/ CreateEventRaises
    \/ UpdateEventRaises

Spec == Init /\ [][Next]_vars

\* the calls of the fallback engine on their own
NextFallback ==
    \/ Idle /\ \E p \in FbPayloads, errors \in FbErrorLists : StartHandleInvalid(p, errors)
    \/ LlmStrategy
    \/ RulesStrategy
    \/ TemplateStrategy
    \/ Idle /\ \E p \in ProcessPayloads : ProcessEventCall(p)

SpecFallback == Init /\ [][NextFallback]_vars

\* the callers of the generative operations on their own: the fallback cascade on an engine
\* that made no autofill call, and apply_autofill
NextAutofill ==
    \/ /\ afClock = 0
       /\ \E p \in FbPayloads, errors \in FbErrorLists : StartHandleInvalid(p, errors)
    \/ LlmStrategy
    \/ RulesStrategy
    \/ TemplateStrategy
    \/ /\ afClock < MaxLayerCalls
       /\ \E ff \in LayerForms, p \in LayerPayloads, gen \in LayerGens : ApplyAutofill(ff, p, gen)

SpecAutofill == Init /\ [][NextAutofill]_vars

\* apply_autofill calls that fill the similarity cache
NextSimilarity ==
    /\ afClock < MaxSimilarCalls
    /\ \E c \in SimilarCalls :
           ApplyAutofill(VenueForm(c[2]), [event_type |-> c[1], title |-> afClock + 1], NoGen)

SpecSimilarity == Init /\ [][NextSimilarity]_vars

\* apply_autofill calls that overflow the cache
NextCache == \E p \in CacheFeed : ApplyAutofill(VenueForm("Hall A"), p, NoGen)

SpecCache == Init /\ [][NextCache]_vars

\* callers that update a full cache at the same time: calls one after the other fill the
\* cache, then every caller makes one call
NextRace ==
    \/ /\ Len(afCache) < CacheLimit
       /\ \A t \in Callers : cacheCalls[t].pc = "idle"
       /\ ApplyAutofill(VenueForm("Hall A"), [event_type |-> "conference", title |-> afClock + 1], NoGen)
    \/ /\ Len(afCache) >= CacheLimit \/ \E t \in Callers : cacheCalls[t].pc /= "idle"
       /\ \E t \in Callers : CacheCallerStore(t)
    \/ \E t \in Callers : CacheCallerCheck(t)
    \/ \E t \in Callers : CacheCallerSort(t)
    \/ \E t \in Callers : CacheCallerDel(t)

SpecRace == Init /\ [][NextRace]_vars

\* apply_autofill_updates calls
NextUpdates == \E ff \in IncForms, items \in IncPayloads : ApplyAutofillUpdates(ff, items)

SpecUpdates == Init /\ [][NextUpdates]_vars

\* create_event calls
NextHandler ==
    \E p \in HandlerPayloads, ff \in LayerForms, docOut \in StoreOutcomes, metaOut \in StoreOutcomes :
        HandlerCreateEvent(p, ff, NoGen, docOut, metaOut)

SpecHandler == Init /\ [][NextHandler]_vars

\* the requests of one process, by either entry point
NextRequests ==
    \/ \E p \in HandlerPayloads, docOut \in StoreOutcomes, metaOut \in StoreOutcomes :
           RouteCreateEvent(p, VenueForm("Hall A"), NoGen, docOut, metaOut)
    \/ \E p \in HandlerPayloads, docOut \in StoreOutcomes, metaOut \in StoreOutcomes :
           OrchestratorCreateEvent(p, VenueForm("Hall A"), NoGen, docOut, metaOut)

SpecRequests == Init /\ [][NextRequests]_vars

\* update requests on one event served by worker processes that run at the same time
NextUpdateRace ==
    \/ \E r \in Runners, p \in RunPayloads : UpdateRunGet(r, p)
    \/ \E r \in Runners : UpdateRunMerge(r)
    \/ \E r \in Runners : UpdateRunWrite(r)

SpecUpdateRace == Init /\ [][NextUpdateRace]_vars

\* seconds the clock can advance in a run of the model
MaxSeconds == 2
\* the clock reaches the next second
Tick ==
    /\ clock < MaxSeconds
    /\ clock' = clock + 1
    /\ UNCHANGED <<orchVars, fbVars, afVars, cacheCalls, requests, workflowIds, eventDocs, storedEvent, updateRuns>>

\* events in a batch of the runs below
MaxTimedBatch == 2
\* the runs of one orchestrator while the clock advances: a creation, an update, or a
\* small batch
NextTimed ==
    \/ Tick
    \/ Idle /\ \E p \in BatchPayloads : StartCreation(p)
    \/ Idle /\ \E p \in UpdatePayloads : StartUpdate(p, TRUE)
    \/ Idle /\ \E evs \in EventLists : Len(evs) <= MaxTimedBatch /\ StartBatch(evs)
    \/ \E i \in 1..MaxTimedBatch : EnterPipeline(i)
    \/ Preprocess
    \/ CreateEvent
    \/ CreateEventRaises
    \/ FallbackRecovery
    \/ FallbackCreate
    \/ Postprocess
    \/ LeavePipeline
    \/ CompleteBatch
    \/ BatchSetupRaises
    \/ ValidateEvent
    \/ AnalyzeChanges
    \/ UpdateEvent
    \/ UpdateEventRaises
    \/ DependentUpdates

SpecTimed == Init /\ [][NextTimed]_vars

\* ------------------------------------------------------------------ claims
InCreationRun == mode \in {"creation", "batch"} /\ pc \notin {"idle", "gather", "batch_returned"}
InUpdateRun == mode = "update"
AllCompleted(steps) == \A i \in 1..Len(steps) : steps[i].status = "completed"
StepStatus(steps, name) ==
    IF \E i \in 1..Len(steps) : steps[i].step = name
    THEN (CHOOSE st \in {steps[i] : i \in 1..Len(steps)} : st.step = name).status
    ELSE "absent"
BadEmailPayload == [GoodPayload EXCEPT !["email"] = "#7"]
\* gather returned the results of all items (asyncio itself did not raise)
Gathered == batch.status = "completed" /\ \A i \in 1..Len(events) : taskState[i] = "done"

\* C1: whatever the payload and whatever the collaborators return or raise, what each of
\* orchestrate_event_creation, orchestrate_event_update and orchestrate_batch_processing
\* hands back is a result object with 'success' and, when success is false, 'error';
\* no exception leaves the operation.
C1_StructuredResults ==
    /\ ret.returned =>
        /\ ~ret.raised
        /\ "success" \in ret.keys
        /\ (~ret.success => "error" \in ret.keys /\ ret.error /= "")
    /\ pc = "returned" => ret.returned
    /\ bret.returned =>
        /\ "success" \in bret.keys
        /\ (~bret.success => "error" \in bret.keys /\ bret.error /= "")
    /\ pc = "batch_returned" => bret.returned
    /\ \A i \in 1..Len(taskResult) : ~taskResult[i].raised

\* C1 witness: a collaborator raised inside a creation run and the run returned the
\* structured failure of the except clause
C1_Witness ==
    /\ mode = "creation" /\ pc = "returned"
    /\ ret.returned /\ ~ret.success /\ ret.error = "create_event raised"

\* C2 (the claim as stated): a creation run whose payload passed validation without any
\* correction never records a failed step and returns success:true.
C2_ValidPayloadAlwaysSucceeds ==
    (InCreationRun /\ pre.success /\ ~pre.corrections_applied) =>
        /\ AllCompleted(wf.steps)
        /\ (ret.returned => ret.success)

\* C3: when create_event failed in a creation run there is exactly one fallback attempt:
\* process_event is called once, with the caller's payload as it was passed in, and
\* create_event is called at most once more, never a third time.
C3_OneFallbackAttempt ==
    InCreationRun =>
        /\ Len(processCalls) <= 1
        /\ Len(createCalls) <= 2
        /\ (processCalls /= <<>> =>
                /\ processCalls[1] = original
                /\ payload = original
                /\ StepStatus(wf.steps, "create_event") = "failed")
        /\ (Len(createCalls) = 2 => Len(processCalls) = 1)
        /\ (StepStatus(wf.steps, "create_event") = "failed" /\ pc = "returned" =>
                Len(processCalls) = 1)

\* C3 witness: the first create failed, the fallback ran once and create_event was
\* called a second time, on a payload that preprocessing had changed
C3_Witness ==
    /\ mode = "creation" /\ pc = "returned"
    /\ StepStatus(wf.steps, "create_event") = "failed"
    /\ Len(processCalls) = 1 /\ Len(createCalls) = 2
    /\ createCalls[1] /= original

\* C4: when the create step and its one fallback attempt both failed, the run ends with
\* status failed and the caller gets the error of the first create_event call, not the
\* error of the fallback and not an empty value.
C4_OriginalErrorSurfaced ==
    (InCreationRun /\ pc = "returned" /\ StepStatus(wf.steps, "create_event") = "failed"
        /\ StepStatus(wf.steps, "fallback_recovery") = "absent") =>
        /\ wf.status = "failed"
        /\ ~ret.success
        /\ ret.error = ErrCreate(1)
        /\ wf.error = ErrCreate(1)
        /\ ret.error \notin {"", "Fallback recovery failed", "create_event raised", ErrCreate(2)}

\* C4 witness: both the create and the retry of the fallback failed
C4_Witness ==
    /\ mode = "creation" /\ pc = "returned"
    /\ Len(createCalls) = 2
    /\ StepStatus(wf.steps, "fallback_recovery") = "absent"
    /\ ~ret.success

C7_PostprocessNonFatal ==
    (InCreationRun /\ pc = "returned" /\ createResult.success) =>
        /\ wf.status = "completed"
        /\ ret.success
        /\ stored /= <<>> /\ stored[Len(stored)].status = "completed"
        /\ ret.event_id = createResult.event_id

\* C7 witness: the create succeeded through the recovery and postprocessing failed
C7_Witness ==
    /\ mode = "creation" /\ pc = "returned"
    /\ createResult.success
    /\ StepStatus(wf.steps, "fallback_recovery") = "completed"
    /\ StepStatus(wf.steps, "postprocess") = "failed"

\* C8: for every list of events and every combination of item outcomes, the batch result
\* has processed_events + failed_events = total_events = number of input events and one
\* entry in results per input event.
C8_BatchCounts ==
    (mode = "batch" /\ pc = "batch_returned" /\ Gathered) =>
        /\ bret.success
        /\ bret.processed_events + bret.failed_events = bret.total_events
        /\ bret.total_events = Len(events)
        /\ Len(bret.results) = Len(events)
        /\ bret.processed_events = Cardinality({i \in 1..Len(events) : taskResult[i].success})

\* C8 witness: a returned batch of MaxBatch events with successes and failures
C8_Witness ==
    /\ mode = "batch" /\ pc = "batch_returned"
    /\ Len(events) >= 3
    /\ bret.processed_events >= 1 /\ bret.failed_events >= 2

\* C9: during a batch at most ConcurrencyCap creation pipelines are in flight; every
\* pipeline in flight holds one slot of the semaphore, so an item enters only when a
\* slot is free.
C9_ConcurrencyCap ==
    mode = "batch" =>
        /\ Cardinality(InFlight) <= ConcurrencyCap
        /\ sem = ConcurrencyCap - Cardinality(InFlight)
        /\ sem >= 0

\* C9 witness: a batch larger than the cap with a pipeline in flight and items waiting
C9_Witness ==
    /\ mode = "batch"
    /\ Len(events) > ConcurrencyCap
    /\ InFlight /= {}
    /\ \E i \in 1..Len(events) : i > ConcurrencyCap /\ taskState[i] = "pending"

\* C10: when the pipeline of an item fails or raises, the other items still run to their
\* own outcome, the batch returns its result, and the entry of the failed item has that
\* item's index, success false and that item's error message.
C10_ItemFailureIsolated ==
    (mode = "batch" /\ pc = "batch_returned" /\ Gathered) =>
        /\ bret.success
        /\ \A i \in 1..Len(events) :
            /\ bret.results[i].event_index = i - 1
            /\ bret.results[i].success = taskResult[i].success
            /\ (~taskResult[i].success =>
                    /\ bret.results[i].error = taskResult[i].error
                    /\ bret.results[i].error /= "")
            /\ (events[i] = BadEmailPayload => bret.results[i].error = ErrTypeError)
            /\ (events[i] = GoodPayload =>
                    bret.results[i].error \in {"", ErrCreate(1), "create_event raised"})

\* C10 witness: an item failed in preprocessing, an item raised, and a later item succeeded
C10_Witness ==
    /\ mode = "batch" /\ pc = "batch_returned"
    /\ \E i, j, k \in 1..Len(bret.results) :
        /\ i < j /\ j < k
        /\ bret.results[i].error = ErrTypeError
        /\ bret.results[j].error = "create_event raised"
        /\ bret.results[k].success

InCascade == fpc \in {"llm", "rules", "template", "returned"}
CascadeReturned == fpc = "returned" /\ fbResult.returned
ProcessReturned == fpc = "pe_returned" /\ fbResult.returned
StepNames(steps) == [i \in 1..Len(steps) |-> steps[i].step]
IsPrefix(a, b) == Len(a) <= Len(b) /\ \A i \in 1..Len(a) : a[i] = b[i]

\* C11: handle_invalid_event invokes the strategies in the order generative ('llm'),
\* rule-based ('rules'), template ('template'); every strategy invoked before another one
\* had failed, so nothing is invoked after a success; and the correction_method of a
\* success result is the strategy that succeeded.
C11_FirstSuccessWins ==
    InCascade =>
        /\ IsPrefix([i \in 1..Len(fbTried) |-> fbTried[i].strategy], CascadeOrder)
        /\ \A i \in 1..(Len(fbTried) - 1) : ~fbTried[i].success
        /\ (fbTried /= <<>> /\ fbTried[Len(fbTried)].success =>
                /\ CascadeReturned /\ fbResult.success
                /\ fbResult.correction_method = fbTried[Len(fbTried)].strategy)
        /\ (CascadeReturned /\ fbResult.success =>
                /\ fbTried /= <<>> /\ fbTried[Len(fbTried)].success
                /\ fbResult.correction_method \in {"llm", "rules", "template"})

\* C11 witness: the first two strategies failed and the template strategy succeeded
C11_Witness ==
    /\ CascadeReturned /\ fbResult.success
    /\ Len(fbTried) = 3
    /\ fbResult.correction_method = "template"

\* C12 (the claim as stated): whenever handle_invalid_event returns success for a payload
\* that failed validation with a missing required field, the corrected payload has a
\* non-empty title and a non-empty event_type.
C12_CorrectedPayloadRevalidates ==
    (CascadeReturned /\ fbResult.success /\ fbErrors /= <<>>
        /\ \A i \in 1..Len(fbErrors) : fbErrors[i] \in {MissingTitleError, MissingTypeError}) =>
        /\ Truthy(fbResult.corrected_payload["title"])
        /\ Truthy(fbResult.corrected_payload["event_type"])

\* C13 (the claim as stated): with the generative strategy unavailable and the error
\* "Missing required field: title", the rule-based correction sets title to
\* "Untitled Event", the corrected payload passes the validation and correction_method
\* is "rules".
C13_RuleLayerInjectsTitle ==
    (CascadeReturned /\ fbLlm = "unavailable" /\ fbErrors = <<MissingTitleError>>
        /\ fbPayload = [EmptyPayload EXCEPT !["event_type"] = "conference"]) =>
        /\ fbResult.success
        /\ fbResult.correction_method = "rules"
        /\ fbResult.corrected_payload["title"] = "Untitled Event"
        /\ FallbackValidationErrors(fbResult.corrected_payload) = <<>>

\* C14 (the claim as stated): when the generative collaborator reports an error or answers
\* with a text that holds no JSON object, the generative strategy has failed and the
\* rule-based strategy is invoked; the result is never a success of the generative strategy.
C14_UnparseableAnswerFailsStrategy ==
    (InCascade /\ fbLlm \in {"unavailable", "service_error", "unparseable"}) =>
        /\ ~fbTried[1].success
        /\ (CascadeReturned => /\ Len(fbTried) >= 2
                               /\ fbResult.correction_method /= "llm")

\* C15: handle_invalid_event returns success false only when all three strategies were
\* invoked and failed, the failure result carries the validation_errors list it was given,
\* and a call in which no strategy succeeded never returns success.
C15_ExhaustedKeepsErrors ==
    CascadeReturned =>
        /\ (~fbResult.success =>
                /\ Len(fbTried) = 3
                /\ \A i \in 1..3 : ~fbTried[i].success
                /\ fbResult.original_errors = fbErrors
                /\ fbResult.error /= "")
        /\ ((\A i \in 1..Len(fbTried) : ~fbTried[i].success) => ~fbResult.success)
        /\ fbResult.original_errors = fbErrors

\* C15 witness: all three strategies failed on a non-empty error list
C15_Witness ==
    /\ CascadeReturned /\ ~fbResult.success
    /\ Len(fbTried) = 3
    /\ fbErrors /= <<>>

\* C16 (the claim as stated): process_event maps a synonym of title to title and turns a
\* numeric-looking string of capacity, duration or price into a number.
C16_SynonymBecomesTitle ==
    (ProcessReturned /\ fbResult.success) =>
        /\ (fbPayload["title"] = Absent /\ fbPayload["event_name"] /= Absent =>
                fbResult.corrected_payload["title"] = fbPayload["event_name"])
        /\ (fbPayload["title"] = Absent /\ fbPayload["event_name"] = Absent
                /\ fbPayload["name"] /= Absent =>
                fbResult.corrected_payload["title"] = fbPayload["name"])
        /\ \A k \in {"capacity", "duration", "price"} :
                (IsStr(fbPayload[k]) /\ ParseInt(fbPayload[k]) /= Absent) =>
                    fbResult.corrected_payload[k] = ParseInt(fbPayload[k])

\* C17 (the claim as stated): every call of process_event that returned has delivered
\* exactly one record to store_fallback_result, with the original payload, the processed
\* payload and a status that matches the outcome of the call.
C17_OneFallbackRecordPerCall ==
    ProcessReturned =>
        /\ Len(fbStored) = 1
        /\ fbStored[1].original_payload = fbPayload
        /\ (fbResult.success => /\ fbStored[1].status = "success"
                                /\ fbStored[1].processed_payload = fbResult.corrected_payload)
        /\ (~fbResult.success => fbStored[1].status = "failed")

C20_CreatePayloadsHaveTitleAndType ==
    InCreationRun =>
        \A i \in 1..Len(createCalls) :
            /\ Truthy(createCalls[i]["title"])
            /\ Truthy(createCalls[i]["event_type"])

\* C20 witness: create_event was called twice for a payload that came without title and
\* without event_type
C20_Witness ==
    /\ mode = "creation" /\ Len(createCalls) = 2
    /\ ~Truthy(original["title"]) /\ ~Truthy(original["event_type"])

\* ------------------------------------------------------- claims on the autofill engine
\* the last apply_autofill call ran its layers and returned success
AutofillDone == afCall.returned /\ afCall.success
\* every field that holds a value in `before` is the same in `after`
KeepsFilled(before, after) ==
    \A i \in 1..Len(before.fields) :
        Truthy(before.fields[i].value) => after.fields[i] = before.fields[i]

\* C21: apply_autofill runs the rule layer, the generative layer and the similarity-cache
\* layer in this order, and no layer changes a field that held a non-empty value when the
\* layer started.
C21_LayersFillOnlyEmptyFields ==
    AutofillDone =>
        /\ KeepsFilled(afCall.form, afCall.rules)
        /\ KeepsFilled(afCall.rules, afCall.ai)
        /\ KeepsFilled(afCall.ai, afCall.form_fields)

\* C22: the generative layer changes only fields named description, summary, notes or
\* details that were empty, whatever the collaborator suggests; apply_autofill makes at most
\* one generative call, and none when no such field is empty.
C22_GenerativeLayerWhitelist ==
    AutofillDone =>
        /\ \A i \in 1..Len(afCall.rules.fields) :
               afCall.ai.fields[i] /= afCall.rules.fields[i]
                   => /\ afCall.rules.fields[i].name \in {"description", "summary", "notes", "details"}
                      /\ ~Truthy(afCall.rules.fields[i].value)
        /\ Len(genCalls) <= 1
        /\ (\A i \in 1..Len(afCall.rules.fields) :
                ~(/\ afCall.rules.fields[i].name \in {"description", "summary", "notes", "details"}
                  /\ ~Truthy(afCall.rules.fields[i].value)))
               => genCalls = <<>>

\* the cache values of the entries that were cached from a payload of event type t
CachedOfType(cache, t) ==
    LET OfType(e) == e.value.payload.event_type = t
        entries == SelectSeq(cache, OfType)
    IN  [i \in 1..Len(entries) |-> entries[i].value]

\* C23: the similarity-cache layer samples at most 5 cache entries, all of them cached from
\* payloads of the event type of the payload at hand, and they are the most recently cached
\* entries of that type.
C23_SampleIsRecentSameType ==
    AutofillDone =>
        /\ Len(afCall.sample) <= 5
        /\ \A i \in 1..Len(afCall.sample) :
               afCall.sample[i].payload.event_type = afCall.payload.event_type
        /\ afCall.sample = LastN(CachedOfType(afCall.before, afCall.payload.event_type), 5)

\* the sampled entries hold value v for field n this often, and a non-empty value that often
SampledCount(n, v) == ValueCount(afCall.sample, n, v)
SampledTotal(n) == Cardinality(ValuePlaces(afCall.sample, n))

\* C24: the similarity-cache layer changes a field only when the field is empty and the
\* value it takes is the most frequent non-empty value of that field among the sampled
\* entries (at most 5) with a share of at least 60% of the sampled non-empty values.
C24_MajorityFill ==
    AutofillDone =>
        /\ Len(afCall.sample) <= 5
        /\ \A i \in 1..Len(afCall.ai.fields) :
               LET before == afCall.ai.fields[i]
                   after == afCall.form_fields.fields[i]
               IN  after /= before =>
                       /\ ~Truthy(before.value)
                       /\ after = [before EXCEPT !.value = after.value, !.autofilled = TRUE,
                                                 !.autofill_source = "cache"]
                       /\ SampledCount(before.name, after.value) >= 1
                       /\ \A j \in 1..Len(afCall.sample) :
                              \A k \in 1..Len(afCall.sample[j].form_fields.fields) :
                                  LET f == afCall.sample[j].form_fields.fields[k]
                                  IN  f.name = before.name /\ Truthy(f.value)
                                          => SampledCount(before.name, f.value)
                                                 <= SampledCount(before.name, after.value)
                       /\ 5 * SampledCount(before.name, after.value) >= 3 * SampledTotal(before.name)

\* an empty venue field was filled from a sample of five of six cached entries in which the
\* winning value holds exactly three of five non-empty values
C24_Witness ==
    /\ AutofillDone
    /\ Len(afCall.before) = 6 /\ Len(afCall.sample) = 5
    /\ afCall.ai.fields[1].value = ""
    /\ afCall.form_fields.fields[1].autofill_source = "cache"
    /\ SampledCount("venue", afCall.form_fields.fields[1].value) = 3
    /\ SampledTotal("venue") = 5

\* C25: the cache never holds more than 100 entries when a call has returned, and the call
\* whose insert brings it to 101 entries leaves exactly 81: the overflow removes 20 entries
\* at once.
C25_CacheBounded ==
    /\ Len(afCache) <= 100
    /\ (AutofillDone /\ afCall.peak = 101) => Len(afCache) = 81

\* a call whose insert overflowed the cache has returned
C25_Witness == AutofillDone /\ afCall.peak = 101 /\ Len(afCache) = 81 /\ Len(afCall.before) = 100

\* the entries the last call removed from the cache, and those of before the call it kept
RemovedEntries ==
    {afCall.before[i] : i \in {i \in 1..Len(afCall.before) :
                                  \A j \in 1..Len(afCache) : afCache[j].key /= afCall.before[i].key}}
KeptEntries ==
    {afCall.before[i] : i \in {i \in 1..Len(afCall.before) :
                                  \E j \in 1..Len(afCache) : afCache[j].key = afCall.before[i].key}}

\* C26: a call that overflows the cache removes 20 entries, each of them cached earlier than
\* every entry that stays, and the entry the call inserted is in the cache when it returns.
C26_EvictsOldestKeepsNewest ==
    (AutofillDone /\ afCall.peak > 100) =>
        /\ \E j \in 1..Len(afCache) :
               afCache[j].key = CacheKey(afCall.payload) /\ afCache[j].value.timestamp = afClock
        /\ Cardinality(RemovedEntries) = 20
        /\ \A r \in RemovedEntries : \A k \in KeptEntries : r.value.timestamp < k.value.timestamp

\* C27: the rule layer is idempotent: applied with the same payload to the form it
\* produced, it changes no value, flag or source tag of any field.
C27_RuleLayerIdempotent ==
    AutofillDone => ApplyAutofillRules(afCall.rules, afCall.payload) = afCall.rules

\* the rule layer filled a field of the form and left another one alone
C27_Witness ==
    /\ AutofillDone
    /\ \E i \in 1..Len(afCall.form.fields) :
           afCall.rules.fields[i] /= afCall.form.fields[i] /\ afCall.rules.fields[i].autofill_source = "rules"
    /\ \E i \in 1..Len(afCall.form.fields) : afCall.rules.fields[i] = afCall.form.fields[i]

\* the last apply_autofill_updates call went through the fields and returned success
UpdatesDone == incCall.returned /\ incCall.success
\* the keys of the payload of the last apply_autofill_updates call
UpdateKeys == {incCall.payload[i].key : i \in 1..Len(incCall.payload)}
\* the fields that depend on a trigger key, as the specification lists them
DependsOn(n) ==
    {k \in {"event_type", "title", "venue", "category"} :
        \/ k = "event_type" /\ n \in {"description", "requirements", "materials"}
        \/ k = "title" /\ n \in {"description", "summary"}
        \/ k = "venue" /\ n \in {"address", "capacity", "amenities"}
        \/ k = "category" /\ n \in {"tags", "keywords"}}

\* C28: apply_autofill_updates changes only fields that depend on a trigger key of the
\* payload and that are empty or flagged autofilled; a field with a value of the user
\* (non-empty, not flagged) and a field unrelated to the triggers stay as they are.
C28_UpdatesSpareUserValues ==
    UpdatesDone =>
        \A j \in 1..Len(incCall.form.fields) :
            LET before == incCall.form.fields[j]
                after == incCall.form_fields.fields[j]
            IN  after /= before =>
                    /\ DependsOn(before.name) \cap UpdateKeys /= {}
                    /\ (~Truthy(before.value) \/ before.autofilled)

\* a call with the triggers title and venue filled the empty description, rewrote the
\* capacity that was autofilled before and left the tags the user typed
C28_Witness ==
    /\ UpdatesDone
    /\ {"title", "venue", "category"} \subseteq UpdateKeys
    /\ incCall.form.fields[1].value = "" /\ incCall.form_fields.fields[1].autofill_source = "incremental"
    /\ incCall.form.fields[2].autofilled /\ incCall.form_fields.fields[2].value = IntTok(100)
    /\ incCall.form.fields[3].value = "typed by the user"
    /\ incCall.form_fields.fields[3] = incCall.form.fields[3]

\* C29: create_event attempts the metadata-store write only after the document-store write
\* succeeded; with a document store that takes the write and a metadata store that fails the
\* call returns success True and the document stays; with a document store that fails it
\* returns success False and attempts no metadata write.
C29_DocumentThenMetadata ==
    ehCall.returned =>
        /\ ehCall.metadata_writes > 0 => ehCall.documents > 0
        /\ (ehCall.document_store = "ok" /\ ehCall.metadata_store = "fail")
               => (ehCall.success /\ ehCall.documents = 1)
        /\ ehCall.document_store = "fail" => (~ehCall.success /\ ehCall.metadata_writes = 0)

\* C30: a generative operation invokes the model at most 3 times, stops at the first attempt
\* that answers and reports an error after the third failed attempt; no run of the fallback
\* cascade or of apply_autofill invokes the same generative operation twice.
C30_BoundedGenerativeCalls ==
    /\ \A i \in 1..Len(genCalls) :
           LET g == genCalls[i]
           IN  /\ g.invocations <= 3
               /\ \A a \in 1..g.invocations : a < g.invocations => g.answers[a] = "error"
               /\ g.outcome = "text" <=> (g.invocations >= 1 /\ g.answers[g.invocations] = "response")
               /\ g.outcome = "service_error"
                      <=> (g.invocations = 3 /\ \A a \in 1..3 : g.answers[a] = "error")
    /\ \A i \in 1..Len(genCalls) : \A j \in 1..Len(genCalls) :
           i /= j => genCalls[i].op /= genCalls[j].op

\* a fallback cascade went on to its last strategy after its generative operation had
\* failed three attempts
C30_Witness ==
    /\ fpc = "returned"
    /\ Len(fbTried) = 3
    /\ Len(genCalls) = 1
    /\ genCalls[1].op = "correct_event_data"
    /\ genCalls[1].invocations = 3 /\ genCalls[1].outcome = "service_error"

\* the key of the update payload is present (payload.items() yields it)
InUpdatePayload(k) == payload[k] /= Absent
\* the analysis of the update run succeeded and the event is not yet rewritten
AnalysisDone == mode = "update" /\ pc = "update_event" /\ analysis.success
\* the entries of the changes list for key k
ChangesOf(k) == {i \in 1..Len(analysis.changes) : analysis.changes[i].field = k}

\* C31: change analysis compares every key of the update payload with the stored value: a
\* key whose value equals the stored one gives no change, a key that differs gives exactly
\* one change, classified added when the stored event had no such key, removed when the new
\* value is empty or None, and modified when both values are present and differ.
C31_ChangeClassification ==
    AnalysisDone =>
        /\ \A i \in 1..Len(analysis.changes) : InUpdatePayload(analysis.changes[i].field)
        /\ \A k \in Keys :
              InUpdatePayload(k) =>
                  IF Get(doc, k) = payload[k] THEN ChangesOf(k) = {}
                  ELSE /\ Cardinality(ChangesOf(k)) = 1
                       /\ \A i \in ChangesOf(k) :
                             LET c == analysis.changes[i]
                             IN  /\ doc[k] = Absent /\ Truthy(payload[k]) => c.change_type = "added"
                                 /\ doc[k] /= Absent /\ ~Truthy(payload[k])
                                        => c.change_type = "removed"
                                 /\ doc[k] /= Absent /\ Truthy(payload[k])
                                        => c.change_type = "modified"

\* the template strategy of the returned cascade ran on fbPayload
TemplateTried == fbResult.returned /\ Len(fbTried) = 3
\* the declared type of fbPayload when it has a template
TemplatedTypes == {"conference", "workshop", "meeting"}
\* the fields a template defines
TemplateFields(t) == {k \in Keys : GetEventTemplate(t)[k] /= Absent}

\* C32: template correction succeeds for a payload whose declared type has a template, and
\* its payload has every field of the template and every field of the original payload,
\* each key of the original with the original value; for another type the strategy fails.
C32_TemplateUnderOriginal ==
    TemplateTried =>
        IF fbPayload["event_type"] \in TemplatedTypes
        THEN /\ fbTried[3].success
             /\ fbResult.success /\ fbResult.correction_method = "template"
             /\ \A k \in TemplateFields(fbPayload["event_type"]) :
                    fbResult.corrected_payload[k] /= Absent
             /\ \A k \in Keys :
                    fbPayload[k] /= Absent => fbResult.corrected_payload[k] = fbPayload[k]
        ELSE ~fbTried[3].success /\ ~fbResult.success

\* the template strategy corrected a conference payload that had its own venue and capacity
C32_Witness ==
    /\ TemplateTried /\ fbResult.success
    /\ fbPayload["event_type"] = "conference" /\ fbPayload["venue"] = "Hall A"
    /\ fbResult.corrected_payload["venue"] = "Hall A"
    /\ fbResult.corrected_payload["capacity"] = "#50"
    /\ fbResult.corrected_payload["title"] = ""
    /\ fbResult.corrected_payload["date"] = NoneTok

\* an update run returned its success result
UpdateSucceeded == mode = "update" /\ ret.returned /\ ret.success
\* the changes of the run whose field has a dependent-update handler
DependentChanges ==
    SelectSeq(ret.changes_applied, LAMBDA c : c.field \in {"event_type", "venue", "date"})
\* the result type by which the handler of field f is known
HandlerTypeOf(f) ==
    IF f = "event_type" THEN "event_type_dependency"
    ELSE IF f = "venue" THEN "venue_dependency" ELSE "date_dependency"

\* C33: in an update run each change triggers only the dependent-update handler of its own
\* field: the dependent updates reported are, in order, the results of the handlers of the
\* changes whose field is event_type, venue or date, one per such change and no other.
C33_OwnHandlerOnly ==
    UpdateSucceeded =>
        /\ Len(ret.dependent_updates) = Len(DependentChanges)
        /\ \A i \in 1..Len(DependentChanges) :
               ret.dependent_updates[i].type = HandlerTypeOf(DependentChanges[i].field)

\* an update run that changed the venue alone reported the venue propagation alone
C33_Witness ==
    /\ UpdateSucceeded
    /\ Len(ret.changes_applied) = 1 /\ ret.changes_applied[1].field = "venue"
    /\ Len(ret.dependent_updates) = 1 /\ ret.dependent_updates[1].type = "venue_dependency"

\* every caller has returned from its cache update
AllCallsFinished == \A t \in Callers : cacheCalls[t].pc = "done"

C35_CacheSharedAcrossRequests ==
    \A i \in 1..Len(requests) : \A j \in 1..Len(requests) :
        i < j =>
            /\ requests[i].engine = requests[j].engine
            /\ \A key \in WrittenKeys(requests[i].before, requests[i].after) :
                   InCache(requests[j].before, key)

\* C36: workflow ids are unique: any two runs one orchestrator started, the items of a
\* batch and the batch itself included, have different ids, also when they started within
\* the same second.
C36_WorkflowIdsUnique ==
    \A i \in 1..Len(workflowIds) : \A j \in 1..Len(workflowIds) :
        i /= j => workflowIds[i].id /= workflowIds[j].id

\* a run of orchestrate_event_creation, alone or as an item of a batch, has returned
CreationReturned == mode \in {"creation", "batch"} /\ pc = "returned" /\ ret.returned

\* C37: a creation run writes at most one event document to the document store: exactly
\* one when orchestrate_event_creation returns success true, also when the success came
\* from the fallback retry, and none when it returns success false.
C37_OneDocumentPerCreation ==
    /\ Len(eventDocs) <= 1
    /\ CreationReturned => Len(eventDocs) = IF ret.success THEN 1 ELSE 0
    /\ CreationReturned /\ ret.success => eventDocs = <<ret.event_id>>

\* a run whose first create_event failed and whose fallback retry succeeded has returned
\* success with the one document of the retry
C37_Witness ==
    /\ CreationReturned /\ ret.success
    /\ Len(createCalls) = 2
    /\ eventDocs = <<ret.event_id>>

\* the keys an update payload carries
PayloadFields(p) == {k \in Keys : p[k] /= Absent}
\* all update runs have written, and no two of them changed the same field
DisjointRunsDone ==
    /\ \A r \in Runners : updateRuns[r].pc = "done"
    /\ \A r1 \in Runners : \A r2 \in Runners :
           r1 /= r2 => PayloadFields(updateRuns[r1].payload) \cap PayloadFields(updateRuns[r2].payload) = {}

\* C38: when update runs on the same event interleave and change disjoint fields, the
\* stored event ends up with the new values of all of them: no write of one run restores
\* a field to the value it had before another run's update.
C38_DisjointUpdatesKept ==
    DisjointRunsDone =>
        \A r \in Runners : \A k \in PayloadFields(updateRuns[r].payload) :
            storedEvent[k] = updateRuns[r].payload[k]

=============================================================================
